---- MODULE Spec2Model ----
(***************************************************************************)
(* Model of the Requirements Engineer Agent                                *)
(* (services/agents/requirements-engineer/src/requirements_engineer_agent) *)
(* Texts are strings; the text operators below compute what the Python     *)
(* string methods and regular expressions of the source compute.           *)
(***************************************************************************)
EXTENDS Integers, Sequences, FiniteSets, TLC

\* ------------------------------------------------------------------------
\* Bounds of the model
\* ------------------------------------------------------------------------
\* longest input text, in sentences, of the text-level specification
MaxSentences == 3
\* number of pipeline runs a process may start
MaxRuns == 2
\* longest input text, in sentences, of the story-level specification
MaxStorySentences == 2
\* number of files under source/ in the traceability-level specification
MaxFiles == 2
\* longest input text, in sentences, of the report-level specification
MaxReportSentences == 2
\* number of requests the memory service handles
MaxRequests == 3

\* ------------------------------------------------------------------------
\* Strings
\* ------------------------------------------------------------------------
UpperChars == "ABCDEFGHIJKLMNOPQRSTUVWXYZ"
LowerChars == "abcdefghijklmnopqrstuvwxyz"
DigitChars == "0123456789"

CharAt(s, i) == SubSeq(s, i, i)

\* the characters of a string, as a set
CharsOf(chars) == {CharAt(chars, k) : k \in 1..Len(chars)}

UpperSet == CharsOf(UpperChars)
LowerSet == CharsOf(LowerChars)
DigitSet == CharsOf(DigitChars)

IsDigit(c) == c \in DigitSet

IsLetter(c) == c \in LowerSet \/ c \in UpperSet

\* \w of the re module: letters, digits, underscore
IsWordChar(c) == IsLetter(c) \/ IsDigit(c) \/ c = "_"

\* \s of the re module and the separator of str.split()
IsSpace(c) == c = " "

\* the lower-case letter of every upper-case letter, and back
ToLower == [c \in UpperSet |->
               CharAt(LowerChars, CHOOSE k \in 1..Len(UpperChars) : CharAt(UpperChars, k) = c)]
ToUpper == [c \in LowerSet |->
               CharAt(UpperChars, CHOOSE k \in 1..Len(LowerChars) : CharAt(LowerChars, k) = c)]

\* str.lower() and str.upper(), one character
LowerChar(c) == IF c \in UpperSet THEN ToLower[c] ELSE c
UpperChar(c) == IF c \in LowerSet THEN ToUpper[c] ELSE c

\* ------------------------------------------------------------------------
\* The sentences of the input texts
\* ------------------------------------------------------------------------
SentAuth     == "The system shall authenticate users when they provide valid credentials."
SentShort    == "Users must login."
SentRefs     == "The export shall run after REQ-001 and requires REQ-7."
SentProse    == "This document describes the billing module."
SentManage   == "Users can manage data, this depends on REQ-001."
SentEssential == "Audit logging must be essential, not optional."
SentPerf     == "The system should deliver fast performance for some users."
SentLogin    == "The user must login to access the authorized dashboard."
SentNeed     == "Reports need weekly export to archive storage."
SentAdmins   == "The admin and the operator shall allow customer resets."

SentenceCorpus ==
    {SentAuth, SentShort, SentRefs, SentProse, SentManage, SentEssential, SentPerf, SentLogin,
     SentNeed, SentAdmins}

\* a requirement of priority low, for the report-level texts
SentFuture == "The system can export invoices in a future release."

\* the sentences whose lower-cased text, analysis, personas, goal and
\* benefit are computed once
KnownSentences == SentenceCorpus \cup {SentFuture}

\* ------------------------------------------------------------------------
\* Strings, continued
\* ------------------------------------------------------------------------
RECURSIVE LowerFrom(_, _)
LowerFrom(s, i) == IF i > Len(s) THEN "" ELSE LowerChar(CharAt(s, i)) \o LowerFrom(s, i + 1)

\* str.lower() of the sentences of the corpus, computed once
LowerTable == [s \in KnownSentences |-> LowerFrom(s, 1)]

\* str.lower()
Lower(s) == IF s \in KnownSentences THEN LowerTable[s] ELSE LowerFrom(s, 1)

\* s[i:].startswith(k), 1-based
MatchAt(s, i, k) == i >= 1 /\ i + Len(k) - 1 <= Len(s) /\ SubSeq(s, i, i + Len(k) - 1) = k

\* k in s
Contains(s, k) == \E i \in 1..(Len(s) - Len(k) + 1) : MatchAt(s, i, k)

\* any(k in s for k in ks)
ContainsAny(s, ks) == \E k \in ks : Contains(s, k)

\* str.strip()
RECURSIVE Strip(_)
Strip(s) ==
    IF Len(s) = 0 THEN s
    ELSE IF IsSpace(CharAt(s, 1)) THEN Strip(SubSeq(s, 2, Len(s)))
    ELSE IF IsSpace(CharAt(s, Len(s))) THEN Strip(SubSeq(s, 1, Len(s) - 1))
    ELSE s

\* str.split(): the maximal runs of non-blank characters, in order
RECURSIVE SplitFrom(_, _, _)
SplitFrom(s, i, cur) ==
    IF i > Len(s) THEN (IF cur = "" THEN << >> ELSE <<cur>>)
    ELSE IF IsSpace(CharAt(s, i))
         THEN (IF cur = "" THEN << >> ELSE <<cur>>) \o SplitFrom(s, i + 1, "")
         ELSE SplitFrom(s, i + 1, cur \o CharAt(s, i))

Split(s) == SplitFrom(s, 1, "")

\* word_tokenize on the sentences of the corpus: split at blanks, and a
\* trailing "." or "," of a word becomes a token of its own
TokenPunct == {".", ","}

RECURSIVE TokenizeWords(_)
TokenizeWords(ws) ==
    IF ws = << >> THEN << >>
    ELSE LET w == Head(ws)
             n == Len(w)
         IN  (IF n > 1 /\ CharAt(w, n) \in TokenPunct
              THEN <<SubSeq(w, 1, n - 1), CharAt(w, n)>>
              ELSE <<w>>) \o TokenizeWords(Tail(ws))

WordTokenize(s) == TokenizeWords(Split(s))

Range(f) == {f[i] : i \in DOMAIN f}

\* str(n): the decimal digits of a natural number
RECURSIVE Str(_)
Str(n) == IF n < 10 THEN CharAt(DigitChars, n + 1)
          ELSE Str(n \div 10) \o CharAt(DigitChars, (n % 10) + 1)

\* str.zfill(width): pad with "0" on the left up to width, never truncate
RECURSIVE Zfill(_, _)
Zfill(s, width) == IF Len(s) >= width THEN s ELSE Zfill("0" \o s, width)

\* ------------------------------------------------------------------------
\* Requirement classifier and attribute extractor
\* ------------------------------------------------------------------------
\* parse_natural_language_requirements: sentences shorter than this are skipped
MinWords == 5
\* _extract_requirement_info: the title is the first TitleLen characters
TitleLen == 50
\* width of the number in a requirement id
IdWidth == 3

\* req_indicators with the modal verbs only
req_indicators_modal == {"shall", "will", "must", "should", "can"}

req_indicators == {"shall", "will", "must", "should", "can", "need", "require", "enable", "allow"}

\* non_functional_keywords without its first word
non_functional_keywords_short ==
    {"security", "scalability", "usability", "reliability", "availability"}

non_functional_keywords ==
    {"performance", "security", "scalability", "usability", "reliability", "availability"}

\* priority_order walked from the lowest bucket up
priority_order_reversed == <<"low", "medium", "high", "critical">>

\* self.priority_keywords, a dict: iteration follows the insertion order
priority_order == <<"critical", "high", "medium", "low">>

priority_keywords ==
    [critical |-> {"critical", "essential", "mandatory", "required"},
     high     |-> {"important", "high", "priority", "urgent"},
     medium   |-> {"normal", "medium", "standard", "typical"},
     low      |-> {"nice-to-have", "optional", "future", "enhancement", "low"}]

RECURSIVE FirstBucket(_, _)
FirstBucket(text_lower, k) ==
    IF k > Len(priority_order) THEN "none"
    ELSE IF ContainsAny(text_lower, priority_keywords[priority_order[k]])
         THEN priority_order[k]
         ELSE FirstBucket(text_lower, k + 1)

_detect_priority(text) ==
    LET text_lower == Lower(text)
        bucket     == FirstBucket(text_lower, 1)
    IN  IF bucket # "none" THEN bucket
        ELSE IF ContainsAny(text_lower, {"must", "shall", "critical", "essential"}) THEN "critical"
        ELSE IF ContainsAny(text_lower, {"should", "important"}) THEN "high"
        ELSE "medium"

_detect_requirement_type(text) ==
    IF ContainsAny(Lower(text), non_functional_keywords) THEN "non_functional" ELSE "functional"

vague_words == <<"some", "many", "few", "several", "most", "often", "usually", "normally",
                 "fast", "slow", "good", "bad">>

VagueFinding(word) == "Vague quantifier: '" \o word \o "' - consider specific measurements"
MissingActor == "Missing actor - who performs this action?"
PassiveVoice == "Passive voice detected - consider active voice for clarity"
MissingCondition == "Missing conditions - when does this requirement apply?"

RECURSIVE VagueFindings(_, _)
VagueFindings(text_lower, k) ==
    IF k > Len(vague_words) THEN << >>
    ELSE (IF Contains(text_lower, vague_words[k]) THEN <<VagueFinding(vague_words[k])>> ELSE << >>)
         \o VagueFindings(text_lower, k + 1)

\* _detect_ambiguities that looks for the actors in the text as written
_detect_ambiguities_cased(text) ==
    LET text_lower == Lower(text)
    IN  VagueFindings(text_lower, 1)
        \o (IF ~ContainsAny(text, {"user", "system", "admin", "operator", "customer"})
            THEN <<MissingActor>> ELSE << >>)
        \o (IF Contains(text_lower, " be ") \/ Contains(text_lower, " been ")
            THEN <<PassiveVoice>> ELSE << >>)
        \o (IF ~Contains(text_lower, "when") /\ ~Contains(text_lower, "if")
               /\ ~Contains(text_lower, "after")
            THEN <<MissingCondition>> ELSE << >>)

\* _detect_ambiguities that stops at the first of the three checks after
\* the vague words that finds something
_detect_ambiguities_chained(text) ==
    LET text_lower == Lower(text)
    IN  VagueFindings(text_lower, 1)
        \o (IF ~ContainsAny(text_lower, {"user", "system", "admin", "operator", "customer"})
            THEN <<MissingActor>>
            ELSE IF Contains(text_lower, " be ") \/ Contains(text_lower, " been ")
            THEN <<PassiveVoice>>
            ELSE IF ~Contains(text_lower, "when") /\ ~Contains(text_lower, "if")
                    /\ ~Contains(text_lower, "after")
            THEN <<MissingCondition>>
            ELSE << >>)

_detect_ambiguities(text) ==
    LET text_lower == Lower(text)
    IN  VagueFindings(text_lower, 1)
        \o (IF ~ContainsAny(text_lower, {"user", "system", "admin", "operator", "customer"})
            THEN <<MissingActor>> ELSE << >>)
        \o (IF Contains(text_lower, " be ") \/ Contains(text_lower, " been ")
            THEN <<PassiveVoice>> ELSE << >>)
        \o (IF ~Contains(text_lower, "when") /\ ~Contains(text_lower, "if")
               /\ ~Contains(text_lower, "after")
            THEN <<MissingCondition>> ELSE << >>)

SuggestSmart == "Make requirement SMART: Specific, Measurable, Achievable, Relevant, Time-bound"
SuggestCriteria == "Add acceptance criteria to define 'done'"
SuggestStory == "Consider user story format: 'As a [persona], I want [goal] so that [benefit]'"

_generate_suggestions(text, ambiguities) ==
    (IF ambiguities # << >> THEN <<SuggestSmart>> ELSE << >>)
    \o (IF Contains(Lower(text), "shall") THEN <<SuggestCriteria>> ELSE << >>)
    \o (IF ~MatchAt(text, 1, "As a") THEN <<SuggestStory>> ELSE << >>)

_extract_requirement_info(sentence) ==
    LET words == WordTokenize(Lower(sentence))
    IN  IF \E indicator \in req_indicators : indicator \in Range(words)
        THEN LET amb == _detect_ambiguities(sentence)
             IN  [is_requirement |-> TRUE,
                  title          |-> IF Len(sentence) > TitleLen
                                     THEN SubSeq(sentence, 1, TitleLen) \o "..."
                                     ELSE sentence,
                  description    |-> sentence,
                  priority       |-> _detect_priority(sentence),
                  type           |-> _detect_requirement_type(sentence),
                  ambiguities    |-> amb,
                  suggestions    |-> _generate_suggestions(sentence, amb)]
        ELSE [is_requirement |-> FALSE,
              title          |-> "",
              description    |-> sentence,
              priority       |-> "medium",
              type           |-> "functional",
              ambiguities    |-> << >>,
              suggestions    |-> << >>]

\* _extract_requirement_info of the sentences of the corpus, computed once
SentenceInfo == [s \in KnownSentences |-> _extract_requirement_info(s)]

InfoOf(sentence) ==
    IF sentence \in KnownSentences THEN SentenceInfo[sentence]
    ELSE _extract_requirement_info(sentence)

\* len(sentence.split()) of the sentences of the corpus, computed once
SentenceWords == [s \in KnownSentences |-> Len(Split(s))]

WordsIn(sentence) ==
    IF sentence \in KnownSentences THEN SentenceWords[sentence] ELSE Len(Split(sentence))

\* ReqId without the zfill
ReqIdUnpadded(i) == "REQ-" \o Str(i + 1)

\* f"REQ-{str(i+1).zfill(3)}" for the 0-based index i of enumerate
ReqId(i) == "REQ-" \o Zfill(Str(i + 1), IdWidth)

\* ParseSentence without the test that skips short sentences
ParseSentenceNoSkip(sentence, k) ==
    LET req_info == InfoOf(sentence)
    IN  IF req_info.is_requirement
        THEN << [id                     |-> ReqId(k - 1),
                 raw_text               |-> sentence,
                 title                  |-> req_info.title,
                 description            |-> req_info.description,
                 priority               |-> req_info.priority,
                 type                   |-> req_info.type,
                 ambiguities            |-> req_info.ambiguities,
                 suggested_improvements |-> req_info.suggestions] >>
        ELSE << >>

\* the loop body of parse_natural_language_requirements for sentences[k],
\* k = i + 1 being the 1-based position of the sentence
ParseSentence(sentence, k) ==
    IF WordsIn(sentence) < MinWords THEN << >>
    ELSE LET req_info == InfoOf(sentence)
         IN  IF req_info.is_requirement
             THEN << [id                     |-> ReqId(k - 1),
                      raw_text               |-> sentence,
                      title                  |-> req_info.title,
                      description            |-> req_info.description,
                      priority               |-> req_info.priority,
                      type                   |-> req_info.type,
                      ambiguities            |-> req_info.ambiguities,
                      suggested_improvements |-> req_info.suggestions] >>
             ELSE << >>

RECURSIVE ParseFrom(_, _)
ParseFrom(sentences, k) ==
    IF k > Len(sentences) THEN << >>
    ELSE ParseSentence(sentences[k], k) \o ParseFrom(sentences, k + 1)

\* sentences is sent_tokenize(text): the sentences of the text, in order
parse_natural_language_requirements(sentences) == ParseFrom(sentences, 1)

\* ------------------------------------------------------------------------
\* Dependency analyzer
\* ------------------------------------------------------------------------
\* end of the maximal run of blanks starting at i (i - 1 when there is none)
RECURSIVE SpaceRunEnd(_, _)
SpaceRunEnd(s, i) ==
    IF i <= Len(s) /\ IsSpace(CharAt(s, i)) THEN SpaceRunEnd(s, i + 1) ELSE i - 1

\* end of the maximal run of digits starting at i (i - 1 when there is none)
RECURSIVE DigitRunEnd(_, _)
DigitRunEnd(s, i) ==
    IF i <= Len(s) /\ IsDigit(CharAt(s, i)) THEN DigitRunEnd(s, i + 1) ELSE i - 1

\* the prefixes of dep_patterns, in order
dep_patterns == <<"depends on", "requires", "after", "following">>

\* the literal the capture group of every dep_pattern starts with
RefPrefix == "REQ-"

\* re.findall(prefix + r'\s+(REQ-\d+)', text) scanning from position i
RECURSIVE FindRefsFrom(_, _, _)
FindRefsFrom(text, prefix, i) ==
    IF i > Len(text) THEN << >>
    ELSE LET sp  == i + Len(prefix)
             spe == SpaceRunEnd(text, sp)
             dg  == spe + 1 + Len(RefPrefix)
             dge == DigitRunEnd(text, dg)
         IN  IF MatchAt(text, i, prefix) /\ spe >= sp
                /\ MatchAt(text, spe + 1, RefPrefix) /\ dge >= dg
             THEN <<SubSeq(text, spe + 1, dge)>> \o FindRefsFrom(text, prefix, dge + 1)
             ELSE FindRefsFrom(text, prefix, i + 1)

RECURSIVE ExplicitDeps(_, _)
ExplicitDeps(text, k) ==
    IF k > Len(dep_patterns) THEN << >>
    ELSE FindRefsFrom(text, dep_patterns[k], 1) \o ExplicitDeps(text, k + 1)

\* AuthReqIds that stops at the first requirement it finds
AuthReqIdsFirst(requirements, k) ==
    IF \E j \in k..Len(requirements) : Contains(Lower(requirements[j].description), "auth")
    THEN <<requirements[CHOOSE j \in k..Len(requirements) :
               /\ Contains(Lower(requirements[j].description), "auth")
               /\ \A i \in k..(j - 1) :
                     ~Contains(Lower(requirements[i].description), "auth")].id>>
    ELSE << >>

\* [r['id'] for r in requirements if 'auth' in r['description'].lower()]
RECURSIVE AuthReqIds(_, _)
AuthReqIds(requirements, k) ==
    IF k > Len(requirements) THEN << >>
    ELSE (IF Contains(Lower(requirements[k].description), "auth")
          THEN <<requirements[k].id>> ELSE << >>)
         \o AuthReqIds(requirements, k + 1)

\* DepsOf without the test that passes over the login requirements
DepsOfNoGuard(req, requirements) ==
    LET text     == Lower(req.description)
        explicit == ExplicitDeps(text, 1)
    IN  IF ContainsAny(text, {"user", "access", "manage"})
        THEN explicit \o AuthReqIds(requirements, 1)
        ELSE explicit

\* the dependency list analyze_dependencies builds for one requirement
DepsOf(req, requirements) ==
    LET text     == Lower(req.description)
        explicit == ExplicitDeps(text, 1)
    IN  IF Contains(text, "login") \/ Contains(text, "authentication") THEN explicit
        ELSE IF ContainsAny(text, {"user", "access", "manage"})
             THEN explicit \o AuthReqIds(requirements, 1)
             ELSE explicit

ReqIds(requirements) == {requirements[k].id : k \in DOMAIN requirements}

\* the last requirement of the list that carries the id (a dict keeps the
\* value assigned last)
LastWithId(requirements, id) ==
    requirements[CHOOSE k \in DOMAIN requirements :
                    /\ requirements[k].id = id
                    /\ \A j \in DOMAIN requirements : requirements[j].id = id => j <= k]

\* analyze_dependencies: a dict from requirement id to its dependency list
analyze_dependencies(requirements) ==
    [id \in ReqIds(requirements) |-> DepsOf(LastWithId(requirements, id), requirements)]

\* ------------------------------------------------------------------------
\* Persona and story synthesizer
\* ------------------------------------------------------------------------
\* _extract_personas keeps at most this many personas
MaxPersonas == 3
\* _generate_acceptance_criteria keeps at most this many criteria
MaxCriteria == 5
\* _extract_goal: the goal is the action verb and the words after it, this
\* many words in all
GoalWords == 3
\* limit of retrieve_memory when the request gives none
DefaultLimit == 10

\* end of the maximal run of \w characters starting at i (i - 1 when none)
RECURSIVE WordRunEnd(_, _)
WordRunEnd(s, i) ==
    IF i <= Len(s) /\ IsWordChar(CharAt(s, i)) THEN WordRunEnd(s, i + 1) ELSE i - 1

\* the first alternative of alts (a sequence) that matches at i, "" if none
RECURSIVE FirstAltAt(_, _, _, _)
FirstAltAt(s, i, alts, k) ==
    IF k > Len(alts) THEN ""
    ELSE IF MatchAt(s, i, alts[k]) THEN alts[k] ELSE FirstAltAt(s, i, alts, k + 1)

modal_alts == <<"can", "will", "shall", "should", "must">>
role_alts == <<"user", "role">>
persona_nouns == <<"user", "customer", "admin", "operator", "manager", "developer">>

\* The end of what follows the captured words ending at e, or 0:
\*   kind "role":  (?:\s+user|\s+role|\s*,)
\*   kind "modal": \s+(?:can|will|shall|should|must)
TermEnd(s, e, kind) ==
    LET m == SpaceRunEnd(s, e + 1) + 1
    IN  IF kind = "modal"
        THEN (IF m > e + 1 /\ FirstAltAt(s, m, modal_alts, 1) # ""
              THEN m + Len(FirstAltAt(s, m, modal_alts, 1)) - 1 ELSE 0)
        ELSE (IF m > e + 1 /\ FirstAltAt(s, m, role_alts, 1) # ""
              THEN m + Len(FirstAltAt(s, m, role_alts, 1)) - 1
              ELSE IF MatchAt(s, m, ",") THEN m ELSE 0)

\* (\w+(?:\s+\w+)*?) followed by its terminator, tried with the capture
\* starting at cs and the current word starting at i: <<capture end, match
\* end>>, or <<0, 0>>. The group is lazy: the fewest words win.
RECURSIVE ChainFrom(_, _, _)
ChainFrom(s, i, kind) ==
    LET e == WordRunEnd(s, i)
        t == TermEnd(s, e, kind)
        m == SpaceRunEnd(s, e + 1) + 1
    IN  IF e < i THEN <<0, 0>>
        ELSE IF t # 0 THEN <<e, t>>
        ELSE IF m > e + 1 /\ m <= Len(s) /\ IsWordChar(CharAt(s, m))
             THEN ChainFrom(s, m, kind)
             ELSE <<0, 0>>

\* re.findall(r'(\w+(?:\s+\w+)*?)\s+(?:can|will|shall|should|must)', s)
RECURSIVE FindModalSubjects(_, _)
FindModalSubjects(s, i) ==
    IF i > Len(s) THEN << >>
    ELSE LET c == ChainFrom(s, i, "modal")
         IN  IF c[1] # 0
             THEN <<SubSeq(s, i, c[1])>> \o FindModalSubjects(s, c[2] + 1)
             ELSE FindModalSubjects(s, i + 1)

\* the end of (?:as an?|for the)\s+ matched at i, or 0
IntroEnd(s, i) ==
    LET a == IF MatchAt(s, i, "as an") /\ SpaceRunEnd(s, i + 5) >= i + 5
             THEN SpaceRunEnd(s, i + 5)
             ELSE IF MatchAt(s, i, "as a") /\ SpaceRunEnd(s, i + 4) >= i + 4
                  THEN SpaceRunEnd(s, i + 4)
                  ELSE 0
    IN  IF a # 0 THEN a
        ELSE IF MatchAt(s, i, "for the") /\ SpaceRunEnd(s, i + 7) >= i + 7
             THEN SpaceRunEnd(s, i + 7)
             ELSE 0

\* re.findall(r'(?:as an?|for the)\s+(\w+(?:\s+\w+)*?)(?:\s+user|\s+role|\s*,)', s)
RECURSIVE FindRolePhrases(_, _)
FindRolePhrases(s, i) ==
    IF i > Len(s) THEN << >>
    ELSE LET ie == IntroEnd(s, i)
             c  == IF ie # 0 THEN ChainFrom(s, ie + 1, "role") ELSE <<0, 0>>
         IN  IF c[1] # 0
             THEN <<SubSeq(s, ie + 1, c[1])>> \o FindRolePhrases(s, c[2] + 1)
             ELSE FindRolePhrases(s, i + 1)

\* re.findall(r'(?:user|customer|admin|operator|manager|developer)s?', s)
RECURSIVE FindPersonaNouns(_, _)
FindPersonaNouns(s, i) ==
    IF i > Len(s) THEN << >>
    ELSE LET n == FirstAltAt(s, i, persona_nouns, 1)
             e == IF MatchAt(s, i + Len(n), "s") THEN i + Len(n) ELSE i + Len(n) - 1
         IN  IF n # ""
             THEN <<SubSeq(s, i, e)>> \o FindPersonaNouns(s, e + 1)
             ELSE FindPersonaNouns(s, i + 1)

\* set([p.strip() for p in personas if p.strip()]) of the three findall lists
FoundPersonas(text) ==
    LET text_lower == Lower(text)
        found == FindRolePhrases(text_lower, 1) \o FindModalSubjects(text_lower, 1)
                 \o FindPersonaNouns(text_lower, 1)
    IN  {Strip(found[k]) : k \in {j \in DOMAIN found : Strip(found[j]) # ""}}

\* FoundPersonas of the sentences of the corpus, computed once
PersonaTable == [s \in KnownSentences |-> FoundPersonas(s)]

PersonaSet(text) == IF text \in KnownSentences THEN PersonaTable[text] ELSE FoundPersonas(text)

\* the lists without repetition of exactly n elements of S
ListsOf(S, n) == {l \in [1..n -> S] : \A a, b \in 1..n : a # b => l[a] # l[b]}

Min(a, b) == IF a < b THEN a ELSE b

\* _extract_personas without the cut to three personas
_extract_personas_all(text) == ListsOf(PersonaSet(text), Cardinality(PersonaSet(text)))

\* _extract_personas: list(set(...))[:3]. The order of a set of strings is
\* the order of their hashes, which differs from one interpreter process to
\* the next: every order is a possible result.
_extract_personas(text) == ListsOf(PersonaSet(text), Min(MaxPersonas, Cardinality(PersonaSet(text))))

goal_verbs == {"authenticate", "login", "access", "view", "create", "update", "delete", "manage"}

\* ' '.join(words)
RECURSIVE Join(_)
Join(words) ==
    IF words = << >> THEN ""
    ELSE IF Len(words) = 1 THEN words[1]
    ELSE words[1] \o " " \o Join(Tail(words))

\* _extract_goal with self.nlp = None (the spaCy model is not installed:
\* _init_nlp warns and goes on): the first action verb and the two words
\* after it, else the first 50 characters
GoalIn(text) ==
    LET words == Split(text)
        hits  == {i \in DOMAIN words : Lower(words[i]) \in goal_verbs}
    IN  IF hits # {}
        THEN LET i == CHOOSE h \in hits : \A g \in hits : h <= g
             IN  Join(SubSeq(words, i, Min(i + GoalWords - 1, Len(words))))
        ELSE SubSeq(text, 1, Min(TitleLen, Len(text)))

\* GoalIn of the sentences of the corpus, computed once
GoalTable == [s \in KnownSentences |-> GoalIn(s)]

_extract_goal(text) == IF text \in KnownSentences THEN GoalTable[text] ELSE GoalIn(text)

benefit_intros == <<"so that", "to enable", "in order to", "to allow", "to provide">>
benefit_labels == <<"benefit", "value", "advantage">>

\* re.search(r'(?:so that|...)\s+(.+)', text, re.IGNORECASE) from position
\* i on: the capture of the leftmost match, stripped; "none" without match
RECURSIVE BenefitPhrase(_, _)
BenefitPhrase(text, i) ==
    IF i > Len(text) THEN "none"
    ELSE LET a   == FirstAltAt(Lower(text), i, benefit_intros, 1)
             sp  == i + Len(a)
             spe == SpaceRunEnd(text, sp)
         IN  IF a # "" /\ spe >= sp /\ spe < Len(text)
             THEN Strip(SubSeq(text, spe + 1, Len(text)))
             ELSE IF a # "" /\ spe > sp /\ spe = Len(text) THEN ""
             ELSE BenefitPhrase(text, i + 1)

\* re.search(r'(?:benefit|value|advantage):\s*(.+)', text, re.IGNORECASE)
RECURSIVE BenefitLabel(_, _)
BenefitLabel(text, i) ==
    IF i > Len(text) THEN "none"
    ELSE LET a  == FirstAltAt(Lower(text), i, benefit_labels, 1)
             cl == i + Len(a)
         IN  IF a # "" /\ MatchAt(text, cl, ":") /\ cl < Len(text)
             THEN Strip(SubSeq(text, cl + 1, Len(text)))
             ELSE BenefitLabel(text, i + 1)

BenefitIn(text) ==
    IF BenefitPhrase(text, 1) # "none" THEN BenefitPhrase(text, 1)
    ELSE IF BenefitLabel(text, 1) # "none" THEN BenefitLabel(text, 1)
    ELSE IF Contains(Lower(text), "authentication") THEN "I can securely access the system"
    ELSE IF Contains(Lower(text), "search") THEN "I can quickly find relevant information"
    ELSE IF Contains(Lower(text), "data") THEN "I can manage my information effectively"
    ELSE "I can accomplish my goals efficiently"

\* BenefitIn of the sentences of the corpus, computed once
BenefitTable == [s \in KnownSentences |-> BenefitIn(s)]

_extract_benefit(text) == IF text \in KnownSentences THEN BenefitTable[text] ELSE BenefitIn(text)

_generate_acceptance_criteria(requirement) ==
    LET text == Lower(requirement.description)
        criteria ==
            IF requirement.type = "functional" /\ Contains(text, "authentication")
            THEN <<"Given valid credentials, user can log in successfully",
                   "Given invalid credentials, system shows error message",
                   "Given successful login, user is redirected to dashboard">>
            ELSE IF requirement.type = "functional" /\ Contains(text, "search")
            THEN <<"Given search query, system returns relevant results",
                   "Given no matches, system shows 'no results' message",
                   "Given search results, user can navigate to items">>
            ELSE <<"Given the preconditions are met, the system performs the required action",
                   "Given error conditions, the system handles them gracefully",
                   "Given successful completion, the system confirms the result">>
    IN  SubSeq(criteria, 1, Min(MaxCriteria, Len(criteria)))

_map_priority_to_number(priority) ==
    IF priority = "critical" THEN 1
    ELSE IF priority = "high" THEN 2
    ELSE IF priority = "medium" THEN 3
    ELSE IF priority = "low" THEN 4
    ELSE 3

_generate_user_story(requirement, persona) ==
    [persona             |-> persona,
     goal                |-> _extract_goal(requirement.description),
     benefit             |-> _extract_benefit(requirement.description),
     acceptance_criteria |-> _generate_acceptance_criteria(requirement),
     priority            |-> _map_priority_to_number(requirement.priority)]

\* StoriesFor without the default persona
StoriesForNoDefault(req, personas) ==
    [k \in DOMAIN personas |-> _generate_user_story(req, personas[k])]

\* the stories of one requirement, for one order of its personas
StoriesFor(req, personas) ==
    LET ps == IF personas = << >> THEN <<"user">> ELSE personas
    IN  [k \in DOMAIN ps |-> _generate_user_story(req, ps[k])]

\* create_user_stories: the possible story lists, one per choice of the
\* persona order of every requirement
RECURSIVE StoryListsFrom(_, _)
StoryListsFrom(requirements, k) ==
    IF k > Len(requirements) THEN {<< >>}
    ELSE {StoriesFor(requirements[k], ps) \o rest :
              ps \in _extract_personas(requirements[k].description),
              rest \in StoryListsFrom(requirements, k + 1)}

create_user_stories(requirements) == StoryListsFrom(requirements, 1)

\* ------------------------------------------------------------------------
\* Document generator. A document is the sequence of its lines.
\* ------------------------------------------------------------------------
\* self.project_path.name
project_name == "demo"

\* str.title(): a letter after a non-letter is upper-cased, any other
\* letter lower-cased
RECURSIVE TitleFrom(_, _)
TitleFrom(s, i) ==
    IF i > Len(s) THEN ""
    ELSE (IF i = 1 \/ ~IsLetter(CharAt(s, i - 1))
          THEN UpperChar(CharAt(s, i)) ELSE LowerChar(CharAt(s, i)))
         \o TitleFrom(s, i + 1)

Title(s) == TitleFrom(s, 1)

\* ', '.join(items)
RECURSIVE JoinComma(_)
JoinComma(items) ==
    IF items = << >> THEN ""
    ELSE IF Len(items) = 1 THEN items[1]
    ELSE items[1] \o ", " \o JoinComma(Tail(items))

\* [x for x in xs if Keep(x)] for the requirements of one priority
RECURSIVE WithPriority(_, _)
WithPriority(requirements, priority) ==
    IF requirements = << >> THEN << >>
    ELSE (IF Head(requirements).priority = priority THEN <<Head(requirements)>> ELSE << >>)
         \o WithPriority(Tail(requirements), priority)

CountPriority(requirements, priority) == Len(WithPriority(requirements, priority))

\* the scope areas, in the order sorted() gives them
scope_areas == << [word |-> "api",            area |-> "API Services"],
                  [word |-> "data",           area |-> "Data Management"],
                  [word |-> "search",         area |-> "Search and Discovery"],
                  [word |-> "authentication", area |-> "User Authentication and Authorization"] >>

RECURSIVE ScopeLines(_, _)
ScopeLines(requirements, k) ==
    IF k > Len(scope_areas) THEN << >>
    ELSE (IF \E j \in DOMAIN requirements :
                 Contains(Lower(requirements[j].description), scope_areas[k].word)
          THEN <<"- **" \o scope_areas[k].area \o "**">> ELSE << >>)
         \o ScopeLines(requirements, k + 1)

RECURSIVE BulletLines(_)
BulletLines(items) ==
    IF items = << >> THEN << >>
    ELSE <<"- " \o Head(items)>> \o BulletLines(Tail(items))

RequirementLines(req, dependencies) ==
    << "#### " \o req.id \o ": " \o req.title,
       "**Priority**: " \o Title(req.priority) \o "  ",
       "**Description**: " \o req.description,
       "" >>
    \o (IF req.ambiguities # << >>
        THEN <<"**Potential Ambiguities**:">> \o BulletLines(req.ambiguities) \o <<"">>
        ELSE << >>)
    \o (IF req.suggested_improvements # << >>
        THEN <<"**Suggested Improvements**:">> \o BulletLines(req.suggested_improvements) \o <<"">>
        ELSE << >>)
    \o (IF req.id \in DOMAIN dependencies /\ dependencies[req.id] # << >>
        THEN <<"**Dependencies**: " \o JoinComma(dependencies[req.id]), "">>
        ELSE << >>)
    \o <<"---", "">>

RECURSIVE RequirementsLines(_, _)
RequirementsLines(requirements, dependencies) ==
    IF requirements = << >> THEN << >>
    ELSE RequirementLines(Head(requirements), dependencies)
         \o RequirementsLines(Tail(requirements), dependencies)

\* GroupLines that prints the heading of a group without members too
RECURSIVE GroupLinesAll(_, _, _)
GroupLinesAll(requirements, dependencies, k) ==
    IF k > Len(priority_order) THEN << >>
    ELSE << "### 3." \o Str(k) \o " " \o Title(priority_order[k])
            \o " Priority Requirements", "" >>
         \o RequirementsLines(WithPriority(requirements, priority_order[k]), dependencies)
         \o GroupLinesAll(requirements, dependencies, k + 1)

\* the groups in the order of priority_order; an empty group is left out
RECURSIVE GroupLines(_, _, _)
GroupLines(requirements, dependencies, k) ==
    IF k > Len(priority_order) THEN << >>
    ELSE LET group == WithPriority(requirements, priority_order[k])
         IN  (IF group # << >>
              THEN << "### 3." \o Str(k) \o " " \o Title(priority_order[k])
                      \o " Priority Requirements", "" >>
                   \o RequirementsLines(group, dependencies)
              ELSE << >>)
             \o GroupLines(requirements, dependencies, k + 1)

RECURSIVE StoryLines(_, _)
StoryLines(user_stories, i) ==
    IF i > Len(user_stories) THEN << >>
    ELSE LET story == user_stories[i]
         IN  << "### US-" \o Zfill(Str(i), IdWidth) \o ": " \o Title(story.persona) \o " Story",
                "**As a** " \o story.persona \o ", **I want** " \o story.goal
                    \o " **so that** " \o story.benefit,
                "",
                "**Acceptance Criteria**:" >>
             \o BulletLines(story.acceptance_criteria)
             \o << "", "**Priority**: " \o Str(story.priority) \o "/5", "", "---", "" >>
             \o StoryLines(user_stories, i + 1)

\* DependencyRows that leaves out the ids without dependencies
RECURSIVE DependencyRowsNonEmpty(_, _, _)
DependencyRowsNonEmpty(requirements, dependencies, k) ==
    IF k > Len(requirements) THEN << >>
    ELSE LET req_id == requirements[k].id
             deps   == dependencies[req_id]
         IN  (IF deps = << >> \/ \E j \in 1..(k - 1) : requirements[j].id = req_id THEN << >>
              ELSE <<"| " \o req_id \o " | " \o JoinComma(deps) \o " |">>)
             \o DependencyRowsNonEmpty(requirements, dependencies, k + 1)

\* dependencies.items(): one row per key, the keys in the order of their
\* first insertion, which is the order of the requirements
RECURSIVE DependencyRows(_, _, _)
DependencyRows(requirements, dependencies, k) ==
    IF k > Len(requirements) THEN << >>
    ELSE LET req_id == requirements[k].id
             deps   == dependencies[req_id]
         IN  (IF \E j \in 1..(k - 1) : requirements[j].id = req_id THEN << >>
              ELSE <<"| " \o req_id \o " | "
                     \o (IF deps # << >> THEN JoinComma(deps) ELSE "None") \o " |">>)
             \o DependencyRows(requirements, dependencies, k + 1)

DocFooter ==
    << "", "",
       "## 6. Implementation Recommendations", "",
       "### 6.1 Development Phases",
       "1. **Phase 1**: Implement critical priority requirements",
       "2. **Phase 2**: Add high priority features",
       "3. **Phase 3**: Complete medium and low priority items", "",
       "### 6.2 Quality Assurance",
       "- Each requirement should have corresponding acceptance tests",
       "- Traceability should be maintained throughout development",
       "- Regular requirement reviews should be conducted", "",
       "### 6.3 Risk Mitigation",
       "- Address ambiguous requirements first",
       "- Implement dependency requirements before dependent ones",
       "- Regular stakeholder validation", "",
       "## 7. Glossary", "",
       "Terms and definitions will be maintained as requirements evolve.", "",
       "---",
       "*This document was generated by the Requirements Engineer Agent and should be reviewed by stakeholders.*" >>

DateLabel == "**Date**: "

\* generate_functional_requirements_document; timestamp is the text of
\* datetime.now() at the call
generate_functional_requirements_document(requirements, user_stories, dependencies, timestamp) ==
    << "# Functional Requirements Specification", "",
       "**Project**: " \o project_name,
       "**Version**: 1.0",
       DateLabel \o timestamp,
       "**Status**: Draft",
       "**Generated by**: Requirements Engineer Agent", "",
       "## 1. Executive Summary", "",
       "### 1.1 Purpose",
       "This document defines the functional requirements for " \o project_name
           \o " as analyzed and structured by the Requirements Engineer Agent.", "",
       "### 1.2 Scope",
       "The system encompasses the following key areas:" >>
    \o ScopeLines(requirements, 1)
    \o << "", "",
          "## 2. Requirements Overview", "",
          "### 2.1 Summary Statistics",
          "- **Total Requirements**: " \o Str(Len(requirements)),
          "- **Critical Priority**: " \o Str(CountPriority(requirements, "critical")),
          "- **High Priority**: " \o Str(CountPriority(requirements, "high")),
          "- **Medium Priority**: " \o Str(CountPriority(requirements, "medium")),
          "- **Low Priority**: " \o Str(CountPriority(requirements, "low")), "",
          "## 3. Functional Requirements", "" >>
    \o GroupLines(requirements, dependencies, 1)
    \o << "## 4. User Stories", "" >>
    \o StoryLines(user_stories, 1)
    \o << "## 5. Requirement Dependencies", "",
          "| Requirement | Dependencies |",
          "|-------------|-------------|" >>
    \o DependencyRows(requirements, dependencies, 1)
    \o DocFooter

\* ------------------------------------------------------------------------
\* Traceability builder. A file is [path, suffix, content, readable], its
\* content a sequence of lines, path relative to the project root.
\* ------------------------------------------------------------------------
\* scanned_suffixes of a scan that reads code only
scanned_suffixes_code == {".py", ".js", ".ts"}

\* the suffixes of the files the scan opens
scanned_suffixes == {".py", ".js", ".ts", ".md"}

\* req_id in content
ContentHas(content, req_id) == \E k \in DOMAIN content : Contains(content[k], req_id)

EmptyEntry == [features |-> << >>, components |-> << >>, tests |-> << >>, documentation |-> << >>]

\* ScanFile that looks for "test" in the path as it is spelled
ScanFileCased(entry, file, req_id) ==
    IF file.suffix \notin scanned_suffixes THEN entry
    ELSE IF ~file.readable THEN entry
    ELSE IF ~ContentHas(file.content, req_id) THEN entry
    ELSE IF Contains(file.path, "test")
         THEN [entry EXCEPT !.tests = Append(@, file.path)]
    ELSE IF file.suffix = ".md"
         THEN [entry EXCEPT !.documentation = Append(@, file.path)]
    ELSE [entry EXCEPT !.features = Append(@, file.path)]

\* the body of the loop over source_dir.rglob('*') for one file
ScanFile(entry, file, req_id) ==
    IF file.suffix \notin scanned_suffixes THEN entry
    ELSE IF ~file.readable THEN entry
    ELSE IF ~ContentHas(file.content, req_id) THEN entry
    ELSE IF Contains(Lower(file.path), "test")
         THEN [entry EXCEPT !.tests = Append(@, file.path)]
    ELSE IF file.suffix = ".md"
         THEN [entry EXCEPT !.documentation = Append(@, file.path)]
    ELSE [entry EXCEPT !.features = Append(@, file.path)]

\* ScanTree that gives up at the first file it cannot read
RECURSIVE ScanTreeAbort(_, _, _, _)
ScanTreeAbort(entry, files, req_id, k) ==
    IF k > Len(files) THEN entry
    ELSE IF files[k].suffix \in scanned_suffixes /\ ~files[k].readable THEN entry
    ELSE ScanTreeAbort(ScanFile(entry, files[k], req_id), files, req_id, k + 1)

\* the loop over source_dir.rglob('*'): an exception raised for one file
\* is caught inside the loop, which continues with the next file
RECURSIVE ScanTree(_, _, _, _)
ScanTree(entry, files, req_id, k) ==
    IF k > Len(files) THEN entry
    ELSE ScanTree(ScanFile(entry, files[k], req_id), files, req_id, k + 1)

\* generate_traceability_matrix over the files under source/, in the order
\* rglob yields them
generate_traceability_matrix(requirements, files) ==
    [id \in ReqIds(requirements) |-> ScanTree(EmptyEntry, files, id, 1)]

\* ------------------------------------------------------------------------
\* Persistence adapter: rows and SQLite transactions
\* ------------------------------------------------------------------------
Quote(s) == "\"" \o s \o "\""

RECURSIVE QuoteAll(_)
QuoteAll(items) == IF items = << >> THEN << >> ELSE <<Quote(Head(items))>> \o QuoteAll(Tail(items))

\* json.dumps of a list of strings that need no escaping
JsonList(items) == "[" \o JoinComma(QuoteAll(items)) \o "]"

\* json.dumps of a traceability entry
JsonEntry(entry) ==
    "{" \o Quote("features") \o ": " \o JsonList(entry.features) \o ", "
        \o Quote("components") \o ": " \o JsonList(entry.components) \o ", "
        \o Quote("tests") \o ": " \o JsonList(entry.tests) \o ", "
        \o Quote("documentation") \o ": " \o JsonList(entry.documentation) \o "}"

\* datetime.now().isoformat() and .strftime('%Y-%m-%d %H:%M:%S') at tick t
\* of the clock
isoformat(t) == "2025-01-01T00:00:" \o Zfill(Str(t), 2)
strftime(t) == "2025-01-01 00:00:" \o Zfill(Str(t), 2)

\* the row INSERT INTO requirements writes for req
RequirementRow(req, dependencies, traceability, t) ==
    [id                  |-> req.id,
     title               |-> req.title,
     description         |-> req.description,
     priority            |-> req.priority,
     status              |-> "pending",
     acceptance_criteria |-> JsonList(<< >>),
     dependencies        |-> JsonList(IF req.id \in DOMAIN dependencies
                                      THEN dependencies[req.id] ELSE << >>),
     user_story          |-> "",
     business_value      |-> "",
     technical_notes     |-> "",
     traceability_matrix |-> IF req.id \in DOMAIN traceability
                             THEN JsonEntry(traceability[req.id]) ELSE "{}",
     created_at          |-> isoformat(t),
     updated_at          |-> isoformat(t),
     tags                |-> JsonList(<< >>)]

\* the requirement id every story row is linked to
PlaceholderReqId == "REQ-001"

\* the row INSERT INTO user_stories writes for story; id is the value
\* AUTOINCREMENT assigns
StoryRow(story, id, t) ==
    [id                  |-> id,
     requirement_id      |-> PlaceholderReqId,
     persona             |-> story.persona,
     goal                |-> story.goal,
     benefit             |-> story.benefit,
     acceptance_criteria |-> JsonList(story.acceptance_criteria),
     priority            |-> story.priority,
     created_at          |-> isoformat(t)]

\* the tables _init_database creates; story_seq is the sqlite_sequence
\* entry of user_stories, which DELETE does not reset
EmptyDb ==
    [requirements             |-> << >>,
     user_stories             |-> << >>,
     requirement_dependencies |-> << >>,
     traceability             |-> << >>,
     story_seq                |-> 0]

\* the tables in the order save_requirements_to_database clears them
cleared_tables == <<"requirements", "user_stories", "requirement_dependencies", "traceability">>

\* DeleteFrom that leaves the user stories in place
DeleteFromKeepStories(data, table) ==
    IF table = "user_stories" THEN data ELSE [data EXCEPT ![table] = << >>]

\* cursor.execute("DELETE FROM <table>")
DeleteFrom(data, table) == [data EXCEPT ![table] = << >>]

\* INSERT INTO requirements: id is the primary key
CanInsertRequirement(data, row) == \A k \in DOMAIN data.requirements : data.requirements[k].id # row.id

InsertRequirement(data, row) == [data EXCEPT !.requirements = Append(@, row)]

\* INSERT INTO user_stories with the next AUTOINCREMENT id
InsertStory(data, story, t) ==
    [data EXCEPT !.user_stories = Append(@, StoryRow(story, data.story_seq + 1, t)),
                 !.story_seq = @ + 1]

\* ------------------------------------------------------------------------
\* Input texts of the specifications
\* ------------------------------------------------------------------------
\* the texts of the text-level specification: up to MaxSentences sentences
TextInputs == UNION {[1..n -> SentenceCorpus] : n \in 1..MaxSentences}

\* the texts of the pipeline specifications
TextAuth  == <<SentAuth>>
TextProse == <<SentProse>>
TextThree == <<SentAuth, SentManage, SentEssential>>

PipelineTexts == {TextAuth, TextProse, TextThree}

\* the files under source/ before the first run
ReportPath == "source/reqs/functional-requirements.md"

InitialTree ==
    << [path |-> "source/app/auth.py", suffix |-> ".py",
        content |-> <<"# implements REQ-001">>, readable |-> TRUE],
       [path |-> "source/tests/test_auth.py", suffix |-> ".py",
        content |-> <<"# covers REQ-001 and REQ-002">>, readable |-> TRUE] >>

\* the files the trees of the traceability-level specification are built
\* from: code, a test, documents, a file in a directory named Testing, a
\* file of a suffix that is not scanned, a file without any id
FileCorpus ==
    { [path |-> "source/app/auth.py", suffix |-> ".py",
       content |-> <<"# implements REQ-001">>],
      [path |-> "source/tests/test_auth.py", suffix |-> ".py",
       content |-> <<"# covers REQ-001 and REQ-002">>],
      [path |-> "source/docs/design.md", suffix |-> ".md",
       content |-> <<"# Design", "REQ-002 and REQ-003 are covered here.">>],
      [path |-> "source/Testing/plan.md", suffix |-> ".md",
       content |-> <<"Plan for REQ-001, REQ-003">>],
      [path |-> "source/notes.txt", suffix |-> ".txt",
       content |-> <<"REQ-001 REQ-002 REQ-003">>],
      [path |-> "source/app/util.js", suffix |-> ".js",
       content |-> <<"// helpers">>] }

\* the concurrent runs of one project
Procs == {1, 2}
\* the one process of the sequential specification
SeqProcs == {1}

\* ------------------------------------------------------------------------
\* State
\* ------------------------------------------------------------------------
VARIABLES
    tIn,            \* text-level: sent_tokenize(text) of the input text
    tStage,         \* text-level: "input", "parsed", "analyzed"
    tReqs,          \* text-level: result of parse_natural_language_requirements
    tDeps,          \* text-level: result of analyze_dependencies
    tStories,       \* text-level: result of create_user_stories
    tFiles,         \* text-level: the files under source/, in scan order
    tTrace,         \* text-level: result of generate_traceability_matrix
    tDoc,           \* text-level: result of generate_functional_requirements_document
    pc,             \* per process: position in process_requirements
    input,          \* per process: sent_tokenize(input_text)
    memory_client,  \* per process: is self.memory_client set
    requirements,   \* per process: local of process_requirements
    user_stories,   \* per process: local of process_requirements
    dependencies,   \* per process: local of process_requirements
    traceability,   \* per process: local of process_requirements
    idx,            \* per process: position in the loop being executed
    epoch,          \* per process: the clock tick of the run (datetime.now())
    conn,           \* per process: the sqlite3 connection of the run
    fault,          \* per process: what raised in the run: "none", "persist", "memory"
    fault_at,       \* per process: the position at which it raised
    trail,          \* per process: the stages the run has completed
    pushed,         \* per process: store_memory calls of the run that returned
    db,             \* the committed content of the database file
    lock,           \* the process holding SQLite's write lock, 0 if none
    tree,           \* the files under source/, in scan order
    memory,         \* the records the memory service has stored
    clock,          \* ticks once per started run
    history,        \* the finished runs: input, outcome, snapshot and report
    last_commit,    \* the arguments of the save that committed last
    memories,       \* memory service: the rows of the table memories
    mcp_request,    \* memory service: the request handled last
    mcp_raised,     \* memory service: what was raised inside the try of the handler
    mcp_response,   \* memory service: the response to the request handled last
    mcp_count       \* memory service: the number of requests handled

tvars == <<tIn, tStage, tReqs, tDeps, tStories, tFiles, tTrace, tDoc>>

locals == <<input, memory_client, requirements, user_stories, dependencies, traceability,
            idx, epoch>>

mvars == <<memories, mcp_request, mcp_raised, mcp_response, mcp_count>>

pvars == <<pc, input, memory_client, requirements, user_stories, dependencies, traceability,
           idx, epoch, conn, fault, fault_at, trail, pushed, db, lock, tree, memory, clock,
           history, last_commit>>

vars == <<tIn, tStage, tReqs, tDeps, tStories, tFiles, tTrace, tDoc, pc, input, memory_client, requirements, user_stories,
          dependencies, traceability, idx, epoch, conn, fault, fault_at, trail, pushed, db,
          lock, tree, memory, clock, history, last_commit, memories, mcp_request, mcp_raised,
          mcp_response, mcp_count>>

\* ------------------------------------------------------------------------
\* SQLite connection (sqlite3.connect with the default isolation level:
\* the first INSERT/UPDATE/DELETE opens a transaction, which takes the
\* write lock of the file and ends at commit, or is rolled back when the
\* connection goes away)
\* ------------------------------------------------------------------------
NoConn == [open |-> FALSE, in_tx |-> FALSE, data |-> EmptyDb]

\* before the first commit
NoCommit ==
    [epoch |-> 0, requirements |-> << >>, user_stories |-> << >>, dependencies |-> << >>,
     traceability |-> << >>]

\* FileAfterStatement of a connection in autocommit mode: every statement
\* is written to the file at once
FileAfterStatementAutocommit(file, working) == working

\* the content of the database file after a statement has executed inside
\* an open transaction: the statement changes the connection's own view
FileAfterStatement(file, working) == file

\* the connection's view of the data before its next statement
ViewOf(c, file) == IF c.in_tx THEN c.data ELSE file

\* can the connection of p execute a writing statement now
CanWrite(p) == lock = 0 \/ lock = p

\* p executes a writing statement that turns its view into data
ExecuteWrite(p, data) ==
    /\ CanWrite(p)
    /\ conn' = [conn EXCEPT ![p] = [open |-> TRUE, in_tx |-> TRUE, data |-> data]]
    /\ lock' = p
    /\ db' = FileAfterStatement(db, data)

\* ------------------------------------------------------------------------
\* Memory service (memory_service.py): the handler of POST /mcp
\* ------------------------------------------------------------------------
\* dict.get of a key the request does not hold
None == "<None>"

\* the requests: method, params.name, arguments.content, arguments.query
McpRequests ==
    [method : {"tools/call"}, name : {"store_memory"},
     content : {None, "", "REQ-001 is critical", "Release notes"}, query : {None}]
    \cup [method : {"tools/call"}, name : {"retrieve_memory"},
          content : {None}, query : {None, "", "req-001", "notes"}]
    \cup [method : {"tools/call"}, name : {"check_database_health", "delete_memory", None},
          content : {None}, query : {None}]
    \cup [method : {"tools/list", None}, name : {None}, content : {None}, query : {None}]

\* "if not content": None and the empty string are falsy
Falsy(value) == value = None \/ value = ""

\* memory_id of the call at tick t
memory_id(t) == "mem_" \o Str(t)

\* MemoryDatabase.store_memory: INSERT INTO memories, commit
store_memory(rows, content, t) ==
    Append(rows, [id |-> memory_id(t), content |-> content, tags |-> "[]"])

\* the rows in the opposite order
RECURSIVE Reverse(_)
Reverse(rows) == IF rows = << >> THEN << >> ELSE Append(Reverse(Tail(rows)), Head(rows))

\* the rows whose content matches LIKE '%query%' (LIKE ignores the case
\* of ASCII letters)
RECURSIVE Matching(_, _)
Matching(rows, query) ==
    IF rows = << >> THEN << >>
    ELSE (IF Contains(Lower(Head(rows).content), Lower(query)) THEN <<Head(rows)>> ELSE << >>)
         \o Matching(Tail(rows), query)

\* MemoryDatabase.retrieve_memories: ORDER BY created_at DESC LIMIT limit
retrieve_memories(rows, query, limit) ==
    LET found == Reverse(Matching(rows, query))
    IN  SubSeq(found, 1, Min(Len(found), limit))

\* HTTPException(status_code=400, detail=...) raised inside the try
Raise400(rows, detail) ==
    [raised |-> "http", status |-> 400, detail |-> detail, count |-> 0, rows |-> rows]

\* an exception of sqlite3 raised inside the try
RaiseStore(rows) ==
    [raised |-> "store", status |-> 0, detail |-> "database error", count |-> 0, rows |-> rows]

\* the handler returns a dict: FastAPI answers 200
Return200(rows, detail, count) ==
    [raised |-> "none", status |-> 200, detail |-> detail, count |-> count, rows |-> rows]

\* the body of the try of mcp_endpoint; store_fault: the database call
\* raises
TryBody(request, rows, store_fault, t) ==
    IF request.method = "tools/call"
    THEN IF request.name = "store_memory"
         THEN IF Falsy(request.content) THEN Raise400(rows, "Content is required")
              ELSE IF store_fault THEN RaiseStore(rows)
              ELSE Return200(store_memory(rows, request.content, t),
                             "Memory stored successfully", 0)
         ELSE IF request.name = "retrieve_memory"
         THEN IF Falsy(request.query) THEN Raise400(rows, "Query is required")
              ELSE IF store_fault THEN RaiseStore(rows)
              ELSE Return200(rows, "results",
                             Len(retrieve_memories(rows, request.query, DefaultLimit)))
         ELSE IF request.name = "check_database_health"
         THEN IF store_fault THEN RaiseStore(rows)
              ELSE Return200(rows, "healthy", Len(rows))
         ELSE Raise400(rows, "Unknown tool: " \o request.name)
    ELSE Raise400(rows, "Unsupported method: " \o request.method)

\* "except Exception as e: raise HTTPException(status_code=500, ...)":
\* HTTPException is an Exception, so the clause catches the 400 too
ExceptHandler(result) ==
    IF result.raised # "none" THEN [result EXCEPT !.status = 500] ELSE result

\* mcp_endpoint: the try and its except clause
mcp_endpoint(request, rows, store_fault, t) ==
    ExceptHandler(TryBody(request, rows, store_fault, t))

\* the memory service after start: init_db has created the empty table
MInit ==
    /\ memories = << >>
    /\ mcp_request = [method |-> None, name |-> None, content |-> None, query |-> None]
    /\ mcp_raised = "none"
    /\ mcp_response = [status |-> 0, count |-> 0]
    /\ mcp_count = 0

\* ------------------------------------------------------------------------
\* Initial state of the pipeline
\* ------------------------------------------------------------------------
PInit ==
    /\ pc = [p \in Procs |-> "idle"]
    /\ input = [p \in Procs |-> << >>]
    /\ memory_client = [p \in Procs |-> FALSE]
    /\ requirements = [p \in Procs |-> << >>]
    /\ user_stories = [p \in Procs |-> << >>]
    /\ dependencies = [p \in Procs |-> << >>]
    /\ traceability = [p \in Procs |-> << >>]
    /\ idx = [p \in Procs |-> 0]
    /\ epoch = [p \in Procs |-> 0]
    /\ conn = [p \in Procs |-> NoConn]
    /\ fault = [p \in Procs |-> "none"]
    /\ fault_at = [p \in Procs |-> "none"]
    /\ trail = [p \in Procs |-> << >>]
    /\ pushed = [p \in Procs |-> 0]
    /\ db = EmptyDb
    /\ lock = 0
    /\ tree = InitialTree
    /\ memory = << >>
    /\ clock = 0
    /\ history = << >>
    /\ last_commit = NoCommit

\* the text-level variables while the pipeline runs
TIdle ==
    /\ tIn = << >>
    /\ tStage = "off"
    /\ tReqs = << >>
    /\ tDeps = << >>
    /\ tStories = << >>
    /\ tFiles = << >>
    /\ tTrace = << >>
    /\ tDoc = << >>

\* ------------------------------------------------------------------------
\* Text-level specification: the pure stages applied to every bounded text
\* ------------------------------------------------------------------------
TInit ==
    /\ tIn \in TextInputs
    /\ tStage = "input"
    /\ tReqs = << >>
    /\ tDeps = << >>
    /\ tStories = << >>
    /\ tFiles = << >>
    /\ tTrace = << >>
    /\ tDoc = << >>
    /\ PInit
    /\ MInit

TParse ==
    /\ tStage = "input"
    /\ tReqs' = parse_natural_language_requirements(tIn)
    /\ tStage' = "parsed"
    /\ UNCHANGED <<tIn, tDeps, tStories, tFiles, tTrace, tDoc>>
    /\ UNCHANGED <<pvars, mvars>>

TAnalyze ==
    /\ tStage = "parsed"
    /\ tDeps' = analyze_dependencies(tReqs)
    /\ tStage' = "analyzed"
    /\ UNCHANGED <<tIn, tReqs, tStories, tFiles, tTrace, tDoc>>
    /\ UNCHANGED <<pvars, mvars>>

TNext == TParse \/ TAnalyze

SpecText == TInit /\ [][TNext]_vars

\* ------------------------------------------------------------------------
\* Story-level specification: parse, then create_user_stories, applied to
\* every text of up to MaxStorySentences sentences
\* ------------------------------------------------------------------------
StoryInputs == UNION {[1..n -> SentenceCorpus] : n \in 1..MaxStorySentences}

SInit ==
    /\ tIn \in StoryInputs
    /\ tStage = "input"
    /\ tReqs = << >>
    /\ tDeps = << >>
    /\ tStories = << >>
    /\ tFiles = << >>
    /\ tTrace = << >>
    /\ tDoc = << >>
    /\ PInit
    /\ MInit

TStories ==
    /\ tStage = "parsed"
    /\ tStories' \in create_user_stories(tReqs)
    /\ tStage' = "storied"
    /\ UNCHANGED <<tIn, tReqs, tDeps, tFiles, tTrace, tDoc>>
    /\ UNCHANGED <<pvars, mvars>>

SNext == TParse \/ TStories

SpecStory == SInit /\ [][SNext]_vars

\* ------------------------------------------------------------------------
\* Traceability-level specification: parse, then
\* generate_traceability_matrix over every tree of up to MaxFiles files,
\* each of which may fail to open
\* ------------------------------------------------------------------------
\* a file of the corpus that can, or cannot, be opened and read
FileVariants ==
    {[path |-> f.path, suffix |-> f.suffix, content |-> f.content, readable |-> r] :
        f \in FileCorpus, r \in BOOLEAN}

\* the trees: up to MaxFiles files of different paths, in any scan order
TraceTrees ==
    {files \in UNION {[1..n -> FileVariants] : n \in 0..MaxFiles} :
        \A j, k \in DOMAIN files : files[j].path = files[k].path => j = k}

FInit ==
    /\ tIn \in PipelineTexts
    /\ tStage = "input"
    /\ tReqs = << >>
    /\ tDeps = << >>
    /\ tStories = << >>
    /\ tFiles \in TraceTrees
    /\ tTrace = << >>
    /\ tDoc = << >>
    /\ PInit
    /\ MInit

TTrace ==
    /\ tStage = "parsed"
    /\ tTrace' = generate_traceability_matrix(tReqs, tFiles)
    /\ tStage' = "traced"
    /\ UNCHANGED <<tIn, tReqs, tDeps, tStories, tFiles, tDoc>>
    /\ UNCHANGED <<pvars, mvars>>

FNext == TParse \/ TTrace

SpecTrace == FInit /\ [][FNext]_vars

\* ------------------------------------------------------------------------
\* Report-level specification: parse, then the stories, the dependencies
\* and the document of process_requirements, applied to every text of up
\* to MaxReportSentences sentences
\* ------------------------------------------------------------------------
\* the sentences of the report-level texts: requirements of all four
\* priorities, a login requirement, one with inferred dependencies and a
\* sentence that is no requirement
ReportCorpus == {SentAuth, SentProse, SentManage, SentEssential, SentPerf, SentLogin, SentFuture}

ReportInputs == UNION {[1..n -> ReportCorpus] : n \in 1..MaxReportSentences}

RInit ==
    /\ tIn \in ReportInputs
    /\ tStage = "input"
    /\ tReqs = << >>
    /\ tDeps = << >>
    /\ tStories = << >>
    /\ tFiles = << >>
    /\ tTrace = << >>
    /\ tDoc = << >>
    /\ PInit
    /\ MInit

TReport ==
    /\ tStage = "parsed"
    /\ tStories' \in create_user_stories(tReqs)
    /\ tDeps' = analyze_dependencies(tReqs)
    /\ tDoc' = generate_functional_requirements_document(tReqs, tStories', tDeps',
                                                         strftime(clock))
    /\ tStage' = "reported"
    /\ UNCHANGED <<tIn, tReqs, tFiles, tTrace>>
    /\ UNCHANGED <<pvars, mvars>>

RNext == TParse \/ TReport

SpecReport == RInit /\ [][RNext]_vars

\* ------------------------------------------------------------------------
\* The pipeline: process_requirements, one action per step
\* ------------------------------------------------------------------------
\* the content of the file at path, << >> when there is none
FileContent(files, path) ==
    IF \E k \in DOMAIN files : files[k].path = path
    THEN files[CHOOSE k \in DOMAIN files : files[k].path = path].content
    ELSE << >>

\* open(path, 'w') and write: the file is replaced, or created
WriteFile(files, path, suffix, content) ==
    IF \E k \in DOMAIN files : files[k].path = path
    THEN [k \in DOMAIN files |->
             IF files[k].path = path THEN [files[k] EXCEPT !.content = content] ELSE files[k]]
    ELSE Append(files, [path |-> path, suffix |-> suffix, content |-> content, readable |-> TRUE])

\* the entry of a finished run in the history
Finished(p, ok, file, files) ==
    [input |-> input[p], ok |-> ok, saved |-> "persist" \in Range(trail[p]), epoch |-> epoch[p],
     snapshot |-> file, report |-> FileContent(files, ReportPath)]

\* OnPersistFault of a pipeline that catches the exception and goes on
OnPersistFaultSwallowed == "report"

\* where process_requirements goes when save_requirements_to_database
\* raises: the call is not guarded, the exception leaves process_requirements
OnPersistFault == "raised"

\* where process_requirements goes when store_memory raises: neither
\* store_in_memory_service nor process_requirements catches it
OnMemoryFault == "raised"

\* AfterReqs of a save that commits only after the story loop has run
AfterReqsSkipCommit(p) == IF user_stories[p] # << >> THEN "insert_stories" ELSE "report"

\* where save_requirements_to_database goes after the requirement loop
AfterReqs(p) == IF user_stories[p] # << >> THEN "insert_stories" ELSE "commit"

AfterDeletes(p) == IF requirements[p] # << >> THEN "insert_reqs" ELSE AfterReqs(p)

\* NextCritical without the test of the priority
NextCriticalAny(reqs, k) == IF k <= Len(reqs) THEN k ELSE 0

\* the first index from k on of a requirement of priority critical, 0 if none
NextCritical(reqs, k) ==
    IF \E j \in k..Len(reqs) : reqs[j].priority = "critical"
    THEN CHOOSE j \in k..Len(reqs) :
            /\ reqs[j].priority = "critical"
            /\ \A i \in k..(j - 1) : reqs[i].priority # "critical"
    ELSE 0

\* json.dumps(summary, indent=2)
JsonSummary(reqs, stories, t) ==
    "{\n  " \o Quote("total_requirements") \o ": " \o Str(Len(reqs))
    \o ",\n  " \o Quote("critical_count") \o ": " \o Str(CountPriority(reqs, "critical"))
    \o ",\n  " \o Quote("user_stories_count") \o ": " \o Str(Len(stories))
    \o ",\n  " \o Quote("project") \o ": " \o Quote(project_name)
    \o ",\n  " \o Quote("analysis_date") \o ": " \o Quote(isoformat(t)) \o "\n}"

SummaryRecord(reqs, stories, t) ==
    [content    |-> "Requirements analysis for " \o project_name \o ": "
                    \o JsonSummary(reqs, stories, t),
     tags       |-> <<"project:" \o project_name, "type:requirements-analysis",
                      "agent:requirements-engineer", "priority:high">>,
     importance |-> "0.8"]

CriticalRecord(req) ==
    [content    |-> "Critical Requirement " \o req.id \o ": " \o req.description,
     tags       |-> <<"project:" \o project_name, "requirement:" \o req.id,
                      "type:critical-requirement", "agent:requirements-engineer">>,
     importance |-> "0.9"]

\* a call of process_requirements starts: input_text and the agent's
\* memory client are the inputs
StartRun(p) ==
    /\ pc[p] \in {"idle", "returned", "raised"}
    /\ clock < MaxRuns
    /\ \E text \in PipelineTexts, client \in BOOLEAN :
          /\ input' = [input EXCEPT ![p] = text]
          /\ memory_client' = [memory_client EXCEPT ![p] = client]
    /\ clock' = clock + 1
    /\ epoch' = [epoch EXCEPT ![p] = clock + 1]
    /\ pc' = [pc EXCEPT ![p] = "parse"]
    /\ requirements' = [requirements EXCEPT ![p] = << >>]
    /\ user_stories' = [user_stories EXCEPT ![p] = << >>]
    /\ dependencies' = [dependencies EXCEPT ![p] = << >>]
    /\ traceability' = [traceability EXCEPT ![p] = << >>]
    /\ idx' = [idx EXCEPT ![p] = 0]
    /\ fault' = [fault EXCEPT ![p] = "none"]
    /\ fault_at' = [fault_at EXCEPT ![p] = "none"]
    /\ trail' = [trail EXCEPT ![p] = << >>]
    /\ pushed' = [pushed EXCEPT ![p] = 0]
    /\ UNCHANGED <<conn, db, lock, tree, memory, history>>
    /\ UNCHANGED <<tvars, mvars, last_commit>>

\* requirements = self.parse_natural_language_requirements(input_text)
Parse(p) ==
    /\ pc[p] = "parse"
    /\ requirements' = [requirements EXCEPT ![p] = parse_natural_language_requirements(input[p])]
    /\ pc' = [pc EXCEPT ![p] = "stories"]
    /\ trail' = [trail EXCEPT ![p] = Append(@, "parse")]
    /\ UNCHANGED <<input, memory_client, user_stories, dependencies, traceability, idx, epoch,
                   conn, fault, fault_at, pushed, db, lock, tree, memory, clock, history>>
    /\ UNCHANGED <<tvars, mvars, last_commit>>

\* user_stories = self.create_user_stories(requirements)
CreateStories(p) ==
    /\ pc[p] = "stories"
    /\ \E stories \in create_user_stories(requirements[p]) :
          user_stories' = [user_stories EXCEPT ![p] = stories]
    /\ pc' = [pc EXCEPT ![p] = "deps"]
    /\ trail' = [trail EXCEPT ![p] = Append(@, "stories")]
    /\ UNCHANGED <<input, memory_client, requirements, dependencies, traceability, idx, epoch,
                   conn, fault, fault_at, pushed, db, lock, tree, memory, clock, history>>
    /\ UNCHANGED <<tvars, mvars, last_commit>>

\* dependencies = self.analyze_dependencies(requirements)
AnalyzeDeps(p) ==
    /\ pc[p] = "deps"
    /\ dependencies' = [dependencies EXCEPT ![p] = analyze_dependencies(requirements[p])]
    /\ pc' = [pc EXCEPT ![p] = "trace"]
    /\ trail' = [trail EXCEPT ![p] = Append(@, "deps")]
    /\ UNCHANGED <<input, memory_client, requirements, user_stories, traceability, idx, epoch,
                   conn, fault, fault_at, pushed, db, lock, tree, memory, clock, history>>
    /\ UNCHANGED <<tvars, mvars, last_commit>>

\* traceability = self.generate_traceability_matrix(requirements)
BuildTrace(p) ==
    /\ pc[p] = "trace"
    /\ traceability' = [traceability EXCEPT
                           ![p] = generate_traceability_matrix(requirements[p], tree)]
    /\ pc' = [pc EXCEPT ![p] = "connect"]
    /\ trail' = [trail EXCEPT ![p] = Append(@, "trace")]
    /\ UNCHANGED <<input, memory_client, requirements, user_stories, dependencies, idx, epoch,
                   conn, fault, fault_at, pushed, db, lock, tree, memory, clock, history>>
    /\ UNCHANGED <<tvars, mvars, last_commit>>

\* save_requirements_to_database: conn = sqlite3.connect(self.db_path)
Connect(p) ==
    /\ pc[p] = "connect"
    /\ conn' = [conn EXCEPT ![p] = [open |-> TRUE, in_tx |-> FALSE, data |-> EmptyDb]]
    /\ pc' = [pc EXCEPT ![p] = "delete"]
    /\ idx' = [idx EXCEPT ![p] = 1]
    /\ UNCHANGED <<input, memory_client, requirements, user_stories, dependencies, traceability,
                   epoch, fault, fault_at, trail, pushed, db, lock, tree, memory, clock,
                   history>>
    /\ UNCHANGED <<tvars, mvars, last_commit>>

\* cursor.execute("DELETE FROM ..."), one table per step; the first one
\* opens the transaction and waits while another connection holds the lock
Delete(p) ==
    /\ pc[p] = "delete"
    /\ ExecuteWrite(p, DeleteFrom(ViewOf(conn[p], db), cleared_tables[idx[p]]))
    /\ IF idx[p] < Len(cleared_tables)
       THEN /\ idx' = [idx EXCEPT ![p] = @ + 1]
            /\ pc' = pc
       ELSE /\ idx' = [idx EXCEPT ![p] = 1]
            /\ pc' = [pc EXCEPT ![p] = AfterDeletes(p)]
    /\ UNCHANGED <<input, memory_client, requirements, user_stories, dependencies, traceability,
                   epoch, fault, fault_at, trail, pushed, tree, memory, clock, history>>
    /\ UNCHANGED <<tvars, mvars, last_commit>>

\* the connection of p goes away without commit: its transaction is rolled
\* back and its lock released
Rollback(p) ==
    /\ conn' = [conn EXCEPT ![p] = NoConn]
    /\ lock' = IF lock = p THEN 0 ELSE lock

\* an exception leaves save_requirements_to_database at position at
RaisePersist(p, at) ==
    /\ Rollback(p)
    /\ fault' = [fault EXCEPT ![p] = "persist"]
    /\ fault_at' = [fault_at EXCEPT ![p] = at]
    /\ pc' = [pc EXCEPT ![p] = OnPersistFault]
    /\ history' = IF OnPersistFault = "raised"
                  THEN Append(history, Finished(p, FALSE, db, tree)) ELSE history

\* the loop "for req in requirements": INSERT INTO requirements; a second
\* row with the same primary key raises IntegrityError
InsertReq(p) ==
    /\ pc[p] = "insert_reqs"
    /\ CanWrite(p)
    /\ LET row == RequirementRow(requirements[p][idx[p]], dependencies[p], traceability[p],
                                 epoch[p])
           view == ViewOf(conn[p], db)
       IN  IF CanInsertRequirement(view, row)
           THEN /\ ExecuteWrite(p, InsertRequirement(view, row))
                /\ IF idx[p] < Len(requirements[p])
                   THEN /\ idx' = [idx EXCEPT ![p] = @ + 1]
                        /\ pc' = pc
                   ELSE /\ idx' = [idx EXCEPT ![p] = 1]
                        /\ pc' = [pc EXCEPT ![p] = AfterReqs(p)]
                /\ UNCHANGED <<fault, fault_at, history>>
           ELSE /\ RaisePersist(p, "insert_reqs")
                /\ UNCHANGED <<idx, db>>
    /\ UNCHANGED <<input, memory_client, requirements, user_stories, dependencies, traceability,
                   epoch, trail, pushed, tree, memory, clock>>
    /\ UNCHANGED <<tvars, mvars, last_commit>>

\* the loop "for story in user_stories": INSERT INTO user_stories
InsertStoryRow(p) ==
    /\ pc[p] = "insert_stories"
    /\ ExecuteWrite(p, InsertStory(ViewOf(conn[p], db), user_stories[p][idx[p]], epoch[p]))
    /\ IF idx[p] < Len(user_stories[p])
       THEN /\ idx' = [idx EXCEPT ![p] = @ + 1]
            /\ pc' = pc
       ELSE /\ idx' = [idx EXCEPT ![p] = 1]
            /\ pc' = [pc EXCEPT ![p] = "commit"]
    /\ UNCHANGED <<input, memory_client, requirements, user_stories, dependencies, traceability,
                   epoch, fault, fault_at, trail, pushed, tree, memory, clock, history>>
    /\ UNCHANGED <<tvars, mvars, last_commit>>

\* conn.commit() and conn.close()
Commit(p) ==
    /\ pc[p] = "commit"
    /\ db' = ViewOf(conn[p], db)
    /\ lock' = IF lock = p THEN 0 ELSE lock
    /\ conn' = [conn EXCEPT ![p] = NoConn]
    /\ pc' = [pc EXCEPT ![p] = "report"]
    /\ trail' = [trail EXCEPT ![p] = Append(@, "persist")]
    /\ UNCHANGED <<input, memory_client, requirements, user_stories, dependencies, traceability,
                   idx, epoch, fault, fault_at, pushed, tree, memory, clock, history>>
    /\ last_commit' = [epoch |-> epoch[p], requirements |-> requirements[p],
                        user_stories |-> user_stories[p],
                        dependencies |-> dependencies[p],
                        traceability |-> traceability[p]]
    /\ UNCHANGED <<tvars, mvars>>

\* a statement of save_requirements_to_database raises (the database is
\* locked, the disk is full, the run is cancelled)
SaveFault(p) ==
    /\ pc[p] \in {"connect", "delete", "insert_reqs", "insert_stories", "commit"}
    /\ RaisePersist(p, pc[p])
    /\ UNCHANGED <<input, memory_client, requirements, user_stories, dependencies, traceability,
                   idx, epoch, trail, pushed, db, tree, memory, clock>>
    /\ UNCHANGED <<tvars, mvars, last_commit>>

\* doc = self.generate_functional_requirements_document(...), written to
\* source/reqs/functional-requirements.md
WriteReport(p) ==
    /\ pc[p] = "report"
    /\ tree' = WriteFile(tree, ReportPath, ".md",
                         generate_functional_requirements_document(
                             requirements[p], user_stories[p], dependencies[p],
                             strftime(epoch[p])))
    /\ pc' = [pc EXCEPT ![p] = "memory"]
    /\ trail' = [trail EXCEPT ![p] = Append(@, "report")]
    /\ UNCHANGED <<input, memory_client, requirements, user_stories, dependencies, traceability,
                   idx, epoch, conn, fault, fault_at, pushed, db, lock, memory, clock, history>>
    /\ UNCHANGED <<tvars, mvars, last_commit>>

\* store_in_memory_service: return at once without a client, else push the
\* summary record
MemorySummary(p) ==
    /\ pc[p] = "memory"
    /\ IF ~memory_client[p]
       THEN /\ pc' = [pc EXCEPT ![p] = "return"]
            /\ trail' = [trail EXCEPT ![p] = Append(@, "memory")]
            /\ UNCHANGED <<memory, pushed, idx>>
       ELSE /\ memory' = Append(memory, SummaryRecord(requirements[p], user_stories[p], epoch[p]))
            /\ pushed' = [pushed EXCEPT ![p] = @ + 1]
            /\ IF NextCritical(requirements[p], 1) # 0
               THEN /\ idx' = [idx EXCEPT ![p] = NextCritical(requirements[p], 1)]
                    /\ pc' = [pc EXCEPT ![p] = "memory_critical"]
                    /\ trail' = trail
               ELSE /\ idx' = idx
                    /\ pc' = [pc EXCEPT ![p] = "return"]
                    /\ trail' = [trail EXCEPT ![p] = Append(@, "memory")]
    /\ UNCHANGED <<input, memory_client, requirements, user_stories, dependencies, traceability,
                   epoch, conn, fault, fault_at, db, lock, tree, clock, history>>
    /\ UNCHANGED <<tvars, mvars, last_commit>>

\* the loop over the requirements of priority critical: one store_memory each
MemoryCritical(p) ==
    /\ pc[p] = "memory_critical"
    /\ memory' = Append(memory, CriticalRecord(requirements[p][idx[p]]))
    /\ pushed' = [pushed EXCEPT ![p] = @ + 1]
    /\ IF NextCritical(requirements[p], idx[p] + 1) # 0
       THEN /\ idx' = [idx EXCEPT ![p] = NextCritical(requirements[p], idx[p] + 1)]
            /\ pc' = pc
            /\ trail' = trail
       ELSE /\ idx' = idx
            /\ pc' = [pc EXCEPT ![p] = "return"]
            /\ trail' = [trail EXCEPT ![p] = Append(@, "memory")]
    /\ UNCHANGED <<input, memory_client, requirements, user_stories, dependencies, traceability,
                   epoch, conn, fault, fault_at, db, lock, tree, clock, history>>
    /\ UNCHANGED <<tvars, mvars, last_commit>>

\* self.memory_client.store_memory(...) raises
MemoryFault(p) ==
    /\ \/ pc[p] = "memory" /\ memory_client[p]
       \/ pc[p] = "memory_critical"
    /\ fault' = [fault EXCEPT ![p] = "memory"]
    /\ fault_at' = [fault_at EXCEPT ![p] = pc[p]]
    /\ pc' = [pc EXCEPT ![p] = OnMemoryFault]
    /\ history' = IF OnMemoryFault = "raised"
                  THEN Append(history, Finished(p, FALSE, db, tree)) ELSE history
    /\ UNCHANGED <<input, memory_client, requirements, user_stories, dependencies, traceability,
                   idx, epoch, conn, trail, pushed, db, lock, tree, memory, clock>>
    /\ UNCHANGED <<tvars, mvars, last_commit>>

\* process_requirements returns its result
Return(p) ==
    /\ pc[p] = "return"
    /\ pc' = [pc EXCEPT ![p] = "returned"]
    /\ history' = Append(history, Finished(p, TRUE, db, tree))
    /\ UNCHANGED <<input, memory_client, requirements, user_stories, dependencies, traceability,
                   idx, epoch, conn, fault, fault_at, trail, pushed, db, lock, tree, memory,
                   clock>>
    /\ UNCHANGED <<tvars, mvars, last_commit>>

Step(p) ==
    \/ StartRun(p)
    \/ Parse(p)
    \/ CreateStories(p)
    \/ AnalyzeDeps(p)
    \/ BuildTrace(p)
    \/ Connect(p)
    \/ Delete(p)
    \/ InsertReq(p)
    \/ InsertStoryRow(p)
    \/ Commit(p)
    \/ SaveFault(p)
    \/ WriteReport(p)
    \/ MemorySummary(p)
    \/ MemoryCritical(p)
    \/ MemoryFault(p)
    \/ Return(p)

Init == PInit /\ TIdle /\ MInit

\* runs of the same project that may overlap
Next == \E p \in Procs : Step(p)

Spec == Init /\ [][Next]_vars

\* one run after the other
SeqNext == \E p \in SeqProcs : Step(p)

SpecSeq == Init /\ [][SeqNext]_vars

\* ------------------------------------------------------------------------
\* Memory-service specification: up to MaxRequests requests to POST /mcp
\* ------------------------------------------------------------------------
\* one POST /mcp
McpCall ==
    /\ mcp_count < MaxRequests
    /\ \E request \in McpRequests, store_fault \in BOOLEAN :
          LET result == mcp_endpoint(request, memories, store_fault, mcp_count + 1)
          IN  /\ mcp_request' = request
              /\ mcp_raised' = result.raised
              /\ mcp_response' = [status |-> result.status, count |-> result.count]
              /\ memories' = result.rows
    /\ mcp_count' = mcp_count + 1
    /\ UNCHANGED <<tvars, pvars>>

McpNext == McpCall

SpecMcp == Init /\ [][McpNext]_vars

\* ------------------------------------------------------------------------
\* Reading a requirement id back
\* ------------------------------------------------------------------------
DigitValue(c) == (CHOOSE k \in 1..Len(DigitChars) : CharAt(DigitChars, k) = c) - 1

RECURSIVE DecimalValue(_)
DecimalValue(ds) ==
    IF Len(ds) = 0 THEN 0
    ELSE 10 * DecimalValue(SubSeq(ds, 1, Len(ds) - 1)) + DigitValue(CharAt(ds, Len(ds)))

IdDigits(id) == SubSeq(id, Len(RefPrefix) + 1, Len(id))

\* an id is "REQ-" followed by digits only: at least three of them, and
\* more than three only without a leading zero
WellFormedId(id) ==
    /\ MatchAt(id, 1, "REQ-")
    /\ Len(IdDigits(id)) >= 3
    /\ \A k \in 1..Len(IdDigits(id)) : IsDigit(CharAt(IdDigits(id), k))
    /\ Len(IdDigits(id)) > 3 => CharAt(IdDigits(id), 1) # "0"

IdNumber(id) == DecimalValue(IdDigits(id))

WordCount(sentence) == WordsIn(sentence)

HasIndicator(sentence) == \E w \in Range(WordTokenize(Lower(sentence))) : w \in req_indicators

\* C1: the ids of the parsed requirements are pairwise distinct, each is
\* REQ- followed by the zero-padded 1-based number of the sentence it was
\* made from, and the numbers strictly ascend in list order.
C1_IdsUniqueAscending ==
    tStage # "input" =>
        /\ \A k \in DOMAIN tReqs :
              /\ WellFormedId(tReqs[k].id)
              /\ IdNumber(tReqs[k].id) \in DOMAIN tIn
              /\ tIn[IdNumber(tReqs[k].id)] = tReqs[k].raw_text
        /\ \A j, k \in DOMAIN tReqs :
              j < k => /\ tReqs[j].id # tReqs[k].id
                       /\ IdNumber(tReqs[j].id) < IdNumber(tReqs[k].id)

\* a parsed text with a gap in the numbering: two requirements whose
\* numbers differ by more than one
C1_Witness ==
    /\ tStage = "parsed"
    /\ \E k \in DOMAIN tReqs :
          /\ k + 1 \in DOMAIN tReqs
          /\ IdNumber(tReqs[k + 1].id) > IdNumber(tReqs[k].id) + 1

\* C9 (as claimed): every explicit reference "depends on / requires /
\* after / following REQ-n" written in a requirement's description is in
\* the dependency list analyze_dependencies returns for that requirement.
C9_ExplicitRefsListed ==
    tStage = "analyzed" =>
        \A k \in DOMAIN tReqs :
            \A ref \in Range(ExplicitDeps(tReqs[k].description, 1)) :
                ref \in Range(tDeps[tReqs[k].id])

\* C10: a sentence of fewer than 5 words produces no requirement, whatever
\* it contains, and it keeps its number: every requirement carries the
\* number of its own sentence, also after a skipped one.
C10_ShortSentenceSkipped ==
    tStage # "input" =>
        /\ \A n \in DOMAIN tIn :
              WordCount(tIn[n]) < 5 =>
                  \A k \in DOMAIN tReqs : IdNumber(tReqs[k].id) # n
        /\ \A k \in DOMAIN tReqs :
              /\ IdNumber(tReqs[k].id) \in DOMAIN tIn
              /\ tIn[IdNumber(tReqs[k].id)] = tReqs[k].raw_text
              /\ WordCount(tReqs[k].raw_text) >= 5

\* a short sentence with an indicator verb, directly followed by a
\* sentence that became the requirement numbered after it
C10_Witness ==
    /\ tStage = "parsed"
    /\ \E n \in DOMAIN tIn :
          /\ WordCount(tIn[n]) < 5
          /\ HasIndicator(tIn[n])
          /\ \E k \in DOMAIN tReqs : IdNumber(tReqs[k].id) = n + 1

\* ------------------------------------------------------------------------
\* Claims about the pipeline
\* ------------------------------------------------------------------------
\* the positions of save_requirements_to_database from the first DELETE to
\* the commit
InTransaction == {"delete", "insert_reqs", "insert_stories", "commit"}

\* the snapshot the last run that committed left, the empty tables if none
RECURSIVE LastSaved(_, _)
LastSaved(runs, k) ==
    IF k = 0 THEN EmptyDb
    ELSE IF runs[k].saved THEN runs[k].snapshot
    ELSE LastSaved(runs, k - 1)

\* C2: when a run is aborted between the first DELETE and the commit, the
\* database holds exactly the snapshot of the last run that committed
\* before it: no table is emptied and no row of the aborted run is kept.
C2_AbortKeepsSnapshot ==
    \A p \in Procs :
        (pc[p] = "raised" /\ fault[p] = "persist" /\ fault_at[p] \in InTransaction) =>
            db = LastSaved(history, Len(history) - 1)

\* a run aborted at its commit, with rows inserted, after a run that left
\* a snapshot with rows
C2_Witness ==
    \E p \in Procs :
        /\ pc[p] = "raised" /\ fault[p] = "persist" /\ fault_at[p] = "commit"
        /\ requirements[p] # << >>
        /\ Len(history) >= 2
        /\ LastSaved(history, Len(history) - 1).requirements # << >>

\* the rows a save with these arguments leaves in the database, the
\* story ids ending at last_id
RowsOfSave(save, last_id) ==
    [requirements |->
         [k \in DOMAIN save.requirements |->
             RequirementRow(save.requirements[k], save.dependencies, save.traceability,
                            save.epoch)],
     user_stories |->
         [k \in DOMAIN save.user_stories |->
             StoryRow(save.user_stories[k], last_id - Len(save.user_stories) + k, save.epoch)],
     requirement_dependencies |-> << >>,
     traceability |-> << >>,
     story_seq |-> last_id]

\* C3: with overlapping runs of one project, the committed snapshot is in
\* every state the complete row set of exactly one run (the one that
\* committed last): never a partial replacement, never rows of two runs.
C3_SnapshotOfOneRun == db = RowsOfSave(last_commit, db.story_seq)

\* one run has inserted rows it has not committed while the other run,
\* with another input, is at its first DELETE
C3_Witness ==
    \E a, b \in Procs :
        /\ a # b
        /\ lock = a /\ conn[a].in_tx /\ conn[a].data.requirements # << >>
        /\ pc[b] = "delete" /\ idx[b] = 1 /\ ~conn[b].in_tx
        /\ input[a] # input[b]

\* C4 (as claimed): a run in which store_memory raised still returns its
\* result instead of raising.
C4_MemoryFaultTolerated ==
    \A p \in Procs : fault[p] = "memory" => pc[p] # "raised"

\* the lines of a report other than the line of the date
RECURSIVE WithoutDate(_)
WithoutDate(lines) ==
    IF lines = << >> THEN << >>
    ELSE (IF MatchAt(Head(lines), 1, DateLabel) THEN << >> ELSE <<Head(lines)>>)
         \o WithoutDate(Tail(lines))

\* C5 (as claimed): two successive successful runs on the same input leave
\* identical snapshots, and reports identical except for the date.
C5_Idempotent ==
    \A k \in 1..(Len(history) - 1) :
        (history[k].ok /\ history[k + 1].ok /\ history[k].input = history[k + 1].input) =>
            /\ history[k].snapshot = history[k + 1].snapshot
            /\ WithoutDate(history[k].report) = WithoutDate(history[k + 1].report)

\* the report on disk is the one the run of p wrote
ReportOf(p) ==
    LET report == FileContent(tree, ReportPath)
        dated == DateLabel \o strftime(epoch[p])
    IN  \E k \in DOMAIN report : report[k] = dated

\* C6: a fault inside save_requirements_to_database leaves
\* process_requirements as an exception, and that run executes no later
\* stage: it writes no report and pushes no memory record.
C6_PersistFaultAborts ==
    \A p \in Procs :
        fault[p] = "persist" =>
            /\ pc[p] = "raised"
            /\ "report" \notin Range(trail[p])
            /\ "memory" \notin Range(trail[p])
            /\ pushed[p] = 0
            /\ ~ReportOf(p)

\* a run with a memory client whose save raised, while the report of an
\* earlier run is on disk
C6_Witness ==
    \E p \in Procs :
        /\ fault[p] = "persist" /\ pc[p] = "raised"
        /\ memory_client[p]
        /\ requirements[p] # << >>
        /\ FileContent(tree, ReportPath) # << >>

\* C7: after a successful run the requirements and user-story tables hold
\* exactly the rows of that run, in order: every requirement and story of
\* the run has its row, and no row of an earlier run is left.
C7_ReplaceAll ==
    \A p \in SeqProcs :
        pc[p] = "returned" =>
            /\ Len(db.requirements) = Len(requirements[p])
            /\ \A k \in DOMAIN db.requirements :
                  /\ db.requirements[k].id = requirements[p][k].id
                  /\ db.requirements[k].description = requirements[p][k].description
                  /\ db.requirements[k].created_at = isoformat(epoch[p])
            /\ Len(db.user_stories) = Len(user_stories[p])
            /\ \A k \in DOMAIN db.user_stories :
                  /\ db.user_stories[k].persona = user_stories[p][k].persona
                  /\ db.user_stories[k].goal = user_stories[p][k].goal
                  /\ db.user_stories[k].created_at = isoformat(epoch[p])

\* a successful run on another input after a successful run that left
\* requirement and story rows
C7_Witness ==
    \E p \in SeqProcs :
        /\ pc[p] = "returned"
        /\ Len(history) >= 2
        /\ history[1].ok /\ history[1].snapshot.user_stories # << >>
        /\ history[1].input # input[p]
        /\ history[1].snapshot.requirements # << >>

\* the paths of a traceability entry
EntryPaths(entry) ==
    Range(entry.features) \cup Range(entry.components) \cup Range(entry.tests)
        \cup Range(entry.documentation)

\* C8 (as claimed): after a successful run the dependencies table holds a
\* row for every computed dependency edge and the traceability table a row
\* for every (requirement id, artifact path) hit.
C8_TablesAgree ==
    \A p \in SeqProcs :
        pc[p] = "returned" =>
            /\ \A id \in DOMAIN dependencies[p] :
                  \A target \in Range(dependencies[p][id]) :
                      \E k \in DOMAIN db.requirement_dependencies :
                          /\ db.requirement_dependencies[k].source_req_id = id
                          /\ db.requirement_dependencies[k].target_req_id = target
            /\ \A id \in DOMAIN traceability[p] :
                  \A path \in EntryPaths(traceability[p][id]) :
                      \E k \in DOMAIN db.traceability :
                          /\ db.traceability[k].requirement_id = id
                          /\ db.traceability[k].artifact_path = path

\* ------------------------------------------------------------------------
\* Claims about the classifier and the dependency analyzer
\* ------------------------------------------------------------------------
\* the words the claims below speak of
ClaimWords ==
    {"must", "essential", "shall", "login", "authentication", "auth", "user", "access",
     "manage", "system", "admin", "operator", "customer",
     "performance", "security", "scalability", "usability", "reliability", "availability",
     "some", "many", "few", "several", "most", "often", "usually", "normally", "fast", "slow",
     "good", "bad", "optional", "high", "low", "when", "if", "after", " be ", " been "}

\* for every sentence of the corpus, the words of ClaimWords its lower-cased
\* text contains
Mentions == [s \in KnownSentences |-> {w \in ClaimWords : Contains(Lower(s), w)}]

\* the lower-cased sentence contains the word
Says(sentence, w) ==
    IF sentence \in KnownSentences /\ w \in ClaimWords THEN w \in Mentions[sentence]
    ELSE Contains(Lower(sentence), w)

\* for every sentence of the corpus, the tokens of its lower-cased text
TokenSets == [s \in KnownSentences |-> Range(WordTokenize(Lower(s)))]

TokensOf(sentence) ==
    IF sentence \in KnownSentences THEN TokenSets[sentence]
    ELSE Range(WordTokenize(Lower(sentence)))

IndicatorVerbs == {"shall", "will", "must", "should", "can", "need", "require", "enable", "allow"}

\* the sentence numbers of the parsed requirements
ParsedNumbers == {IdNumber(tReqs[k].id) : k \in DOMAIN tReqs}

\* C11: a sentence of at least 5 words produces a requirement if and only
\* if one of the nine indicator verbs is among the tokens of its lower-cased
\* text; a rejected sentence leaves no record.
C11_AcceptedIffIndicator ==
    tStage # "input" =>
        /\ \A n \in DOMAIN tIn :
              WordCount(tIn[n]) >= 5 =>
                  (n \in ParsedNumbers <=> TokensOf(tIn[n]) \cap IndicatorVerbs # {})
        /\ Cardinality(ParsedNumbers) = Len(tReqs)

\* a parsed text with a long sentence that was rejected and a sentence
\* accepted for an indicator that is no modal verb
C11_Witness ==
    /\ tStage = "parsed"
    /\ \E n \in DOMAIN tIn :
          WordCount(tIn[n]) >= 5 /\ n \notin ParsedNumbers
    /\ \E n \in DOMAIN tIn :
          /\ n \in ParsedNumbers
          /\ "need" \in TokensOf(tIn[n])
          /\ TokensOf(tIn[n]) \cap {"shall", "will", "must", "should", "can"} = {}

\* C12: a requirement whose sentence contains "must" and "essential" has
\* priority critical, whatever high, medium or low keyword it also contains.
C12_MustEssentialCritical ==
    \A k \in DOMAIN tReqs :
        (Says(tReqs[k].description, "must") /\ Says(tReqs[k].description, "essential")) =>
            tReqs[k].priority = "critical"

\* a parsed requirement with "must", "essential" and the low keyword
\* "optional"
C12_Witness ==
    \E k \in DOMAIN tReqs :
        /\ Says(tReqs[k].description, "must")
        /\ Says(tReqs[k].description, "essential")
        /\ Says(tReqs[k].description, "optional")

NonFunctionalWords ==
    {"performance", "security", "scalability", "usability", "reliability", "availability"}

\* C13: a requirement is of type non_functional if its sentence contains a
\* word of the non-functional keyword set, and functional if it contains
\* none.
C13_TypeByKeyword ==
    \A k \in DOMAIN tReqs :
        tReqs[k].type = IF \E w \in NonFunctionalWords : Says(tReqs[k].description, w)
                        THEN "non_functional" ELSE "functional"

\* a parsed text with a requirement containing "performance" and one
\* containing no keyword of the set
C13_Witness ==
    /\ \E k \in DOMAIN tReqs : Says(tReqs[k].description, "performance")
    /\ \E k \in DOMAIN tReqs : \A w \in NonFunctionalWords : ~Says(tReqs[k].description, w)

VagueWords ==
    {"some", "many", "few", "several", "most", "often", "usually", "normally", "fast", "slow",
     "good", "bad"}

ActorWords == {"user", "system", "admin", "operator", "customer"}

\* C14: a requirement whose sentence contains a vague word has the
\* vague-quantifier finding for that word among its ambiguities, and one
\* whose sentence contains an actor word never has the missing-actor finding.
C14_AmbiguityFindings ==
    \A k \in DOMAIN tReqs :
        /\ \A w \in VagueWords :
              Says(tReqs[k].description, w) =>
                  ("Vague quantifier: '" \o w \o "' - consider specific measurements")
                      \in Range(tReqs[k].ambiguities)
        /\ (\E a \in ActorWords : Says(tReqs[k].description, a)) =>
              "Missing actor - who performs this action?" \notin Range(tReqs[k].ambiguities)

\* a parsed text with a requirement containing "some" and an actor, one
\* whose only actor starts with a capital letter, and one without an actor
C14_Witness ==
    /\ \E k \in DOMAIN tReqs :
          /\ Says(tReqs[k].description, "some")
          /\ \E a \in ActorWords : Says(tReqs[k].description, a)
    /\ \E k \in DOMAIN tReqs :
          /\ \E a \in ActorWords : Says(tReqs[k].description, a)
          /\ \A a \in ActorWords : ~Contains(tReqs[k].description, a)
    /\ \E k \in DOMAIN tReqs :
          "Missing actor - who performs this action?" \in Range(tReqs[k].ambiguities)

\* the ids of the requirements whose description contains "auth"
AuthIds == {tReqs[j].id : j \in {i \in DOMAIN tReqs : Says(tReqs[i].description, "auth")}}

\* C17: the dependency list of a requirement that mentions "login" holds
\* no id added by the auth rule, its own id included, also when it mentions
\* "access", "user" or "manage".
C17_LoginNoAuthRule ==
    tStage = "analyzed" =>
        \A k \in DOMAIN tReqs :
            Says(tReqs[k].description, "login") =>
                /\ tReqs[k].id \notin Range(tDeps[tReqs[k].id])
                /\ Range(tDeps[tReqs[k].id]) \cap AuthIds = {}

\* an analyzed text with a requirement that mentions "login", "access" and
\* "auth", next to another requirement containing "auth"
C17_Witness ==
    /\ tStage = "analyzed"
    /\ \E k \in DOMAIN tReqs :
          /\ Says(tReqs[k].description, "login")
          /\ Says(tReqs[k].description, "access")
          /\ Says(tReqs[k].description, "auth")
          /\ AuthIds \ {tReqs[k].id} # {}

BucketWords ==
    {"critical", "essential", "mandatory", "required", "important", "high", "priority",
     "urgent", "normal", "medium", "standard", "typical", "nice-to-have", "optional", "future",
     "enhancement", "low"}

\* C19 (as claimed): priority is always one of the four values, and a
\* requirement whose words include "shall" or "must" and no keyword of a
\* priority bucket is critical.
C19_ModalWithoutKeywordCritical ==
    \A k \in DOMAIN tReqs :
        /\ tReqs[k].priority \in {"critical", "high", "medium", "low"}
        /\ (/\ TokensOf(tReqs[k].description) \cap {"shall", "must"} # {}
            /\ TokensOf(tReqs[k].description) \cap BucketWords = {}) =>
              tReqs[k].priority = "critical"

\* C20: the dependency list of a requirement that mentions neither "login"
\* nor "authentication" and mentions user, access or manage holds the id of
\* every requirement of the run whose description contains "auth", its own
\* id included when its own description does.
C20_AuthRuleAddsAll ==
    tStage = "analyzed" =>
        \A k \in DOMAIN tReqs :
            (/\ ~Says(tReqs[k].description, "login")
             /\ ~Says(tReqs[k].description, "authentication")
             /\ \E w \in {"user", "access", "manage"} : Says(tReqs[k].description, w)) =>
                AuthIds \subseteq Range(tDeps[tReqs[k].id])

\* an analyzed text where such a requirement contains "auth" itself and
\* two more requirements contain "auth"
C20_Witness ==
    /\ tStage = "analyzed"
    /\ \E k \in DOMAIN tReqs :
          /\ ~Says(tReqs[k].description, "login")
          /\ ~Says(tReqs[k].description, "authentication")
          /\ \E w \in {"user", "access", "manage"} : Says(tReqs[k].description, w)
          /\ tReqs[k].id \in AuthIds
          /\ tReqs[k].id \in Range(tDeps[tReqs[k].id])
          /\ Cardinality(AuthIds) >= 2

\* ------------------------------------------------------------------------
\* Claims about the story synthesizer
\* ------------------------------------------------------------------------
\* the number of personas found in the description of a requirement
PersonaCount(req) == Cardinality(PersonaSet(req.description))

\* the number of stories a requirement is due: one per persona, three at
\* most, one when there is no persona
StoryShare(req) ==
    IF PersonaCount(req) = 0 THEN 1
    ELSE IF PersonaCount(req) > 3 THEN 3
    ELSE PersonaCount(req)

\* the number of stories due to the requirements before the k-th
RECURSIVE ShareBefore(_)
ShareBefore(k) == IF k <= 1 THEN 0 ELSE ShareBefore(k - 1) + StoryShare(tReqs[k - 1])

\* the stories of the k-th requirement
SegmentOf(k) == SubSeq(tStories, ShareBefore(k) + 1, ShareBefore(k + 1))

\* C15: a requirement for which no persona is found gets exactly one
\* story, with persona "user"; the stories of the other requirements carry
\* personas found in their own descriptions.
C15_DefaultPersona ==
    tStage = "storied" =>
        /\ Len(tStories) = ShareBefore(Len(tReqs) + 1)
        /\ \A k \in DOMAIN tReqs :
              IF PersonaCount(tReqs[k]) = 0
              THEN /\ Len(SegmentOf(k)) = 1
                   /\ SegmentOf(k)[1].persona = "user"
              ELSE \A i \in DOMAIN SegmentOf(k) :
                       SegmentOf(k)[i].persona \in PersonaSet(tReqs[k].description)

\* the stories of a text with a requirement without persona that is not
\* the first one, and a requirement with several personas
C15_Witness ==
    /\ tStage = "storied"
    /\ \E k \in DOMAIN tReqs : PersonaCount(tReqs[k]) = 0 /\ k > 1
    /\ \E k \in DOMAIN tReqs : PersonaCount(tReqs[k]) > 1

\* C16: no persona list has more than 3 entries, every requirement gets
\* between 1 and 3 stories, and no story has more than 5 acceptance
\* criteria.
C16_PersonaAndCriteriaLimits ==
    tStage = "storied" =>
        /\ \A k \in DOMAIN tReqs :
              \A personas \in _extract_personas(tReqs[k].description) : Len(personas) <= 3
        /\ Len(tReqs) <= Len(tStories)
        /\ Len(tStories) <= 3 * Len(tReqs)
        /\ \A i \in DOMAIN tStories : Len(tStories[i].acceptance_criteria) <= 5

\* the stories of a requirement in whose description more than three
\* personas are found
C16_Witness ==
    /\ tStage = "storied"
    /\ \E k \in DOMAIN tReqs : PersonaCount(tReqs[k]) > 3
    /\ Len(tStories) = 3 * Len(tReqs)

\* ------------------------------------------------------------------------
\* Claims about the memory push
\* ------------------------------------------------------------------------
\* the requirements of priority critical, in order
RECURSIVE CriticalOf(_)
CriticalOf(reqs) ==
    IF reqs = << >> THEN << >>
    ELSE (IF Head(reqs).priority = "critical" THEN <<Head(reqs)>> ELSE << >>)
         \o CriticalOf(Tail(reqs))

\* the records the run of p pushed: the last pushed[p] records of the memory
PushedBy(p) == SubSeq(memory, Len(memory) - pushed[p] + 1, Len(memory))

\* C18: a run that returned with a memory client has pushed exactly one
\* summary record first and then one record per requirement of priority
\* critical, in requirement order; a run that returned without a client has
\* pushed nothing.
C18_MemoryPushOrder ==
    \A p \in SeqProcs :
        pc[p] = "returned" =>
            IF memory_client[p]
            THEN /\ pushed[p] = 1 + Len(CriticalOf(requirements[p]))
                 /\ pushed[p] <= Len(memory)
                 /\ "type:requirements-analysis" \in Range(PushedBy(p)[1].tags)
                 /\ \A k \in DOMAIN CriticalOf(requirements[p]) :
                       /\ PushedBy(p)[k + 1].content =
                              "Critical Requirement " \o CriticalOf(requirements[p])[k].id
                                  \o ": " \o CriticalOf(requirements[p])[k].description
                       /\ "type:critical-requirement" \in Range(PushedBy(p)[k + 1].tags)
            ELSE /\ pushed[p] = 0
                 /\ "memory" \in Range(trail[p])

\* a run with a client that returned after pushing the records of two
\* critical requirements with another requirement between them, after an
\* earlier run that returned
C18_Witness ==
    \E p \in SeqProcs :
        /\ pc[p] = "returned"
        /\ memory_client[p]
        /\ Len(CriticalOf(requirements[p])) = 2
        /\ requirements[p][2].priority # "critical"
        /\ \E k \in DOMAIN history : history[k].ok /\ k < Len(history)

\* ------------------------------------------------------------------------
\* Claims about the persisted story rows
\* ------------------------------------------------------------------------
\* the number of stories due to the first j requirements of reqs
RECURSIVE SharesUpTo(_, _)
SharesUpTo(reqs, j) == IF j = 0 THEN 0 ELSE SharesUpTo(reqs, j - 1) + StoryShare(reqs[j])

\* the index of the requirement the k-th story of create_user_stories(reqs)
\* was synthesized from
OriginIndex(reqs, k) ==
    CHOOSE j \in DOMAIN reqs : SharesUpTo(reqs, j - 1) < k /\ k <= SharesUpTo(reqs, j)

StageOrder == <<"parse", "stories", "deps", "trace", "persist", "report", "memory">>

\* the number of the stage a run at position at is executing, 0 when it
\* executes none
StageAt(at) ==
    IF at = "parse" THEN 1
    ELSE IF at = "stories" THEN 2
    ELSE IF at = "deps" THEN 3
    ELSE IF at = "trace" THEN 4
    ELSE IF at \in {"connect", "delete", "insert_reqs", "insert_stories", "commit"} THEN 5
    ELSE IF at = "report" THEN 6
    ELSE IF at \in {"memory", "memory_critical"} THEN 7
    ELSE 0

\* C22: the stages a run has completed are always a prefix of parse,
\* stories, dependencies, traceability, persist, report, memory; a run is
\* executing a stage only when exactly the stages before it are complete;
\* and the report of a run is on disk only when that run has committed
\* its snapshot.
C22_StagesInOrder ==
    \A p \in Procs :
        /\ Len(trail[p]) <= Len(StageOrder)
        /\ trail[p] = SubSeq(StageOrder, 1, Len(trail[p]))
        /\ StageAt(pc[p]) # 0 => Len(trail[p]) = StageAt(pc[p]) - 1
        /\ ReportOf(p) => "persist" \in Range(trail[p])

\* a second run that has returned after all seven stages, its report on
\* disk
C22_Witness ==
    \E p \in Procs :
        /\ pc[p] = "returned"
        /\ trail[p] = StageOrder
        /\ ReportOf(p)
        /\ Len(history) >= 2

\* ------------------------------------------------------------------------
\* Claims about the traceability scan
\* ------------------------------------------------------------------------
\* the names of the buckets of a traceability entry
Buckets == {"features", "components", "tests", "documentation"}

\* the bucket the rule of the claim files a path of this suffix into
BucketFor(path, suffix) ==
    IF Contains(Lower(path), "test") THEN "tests"
    ELSE IF suffix = ".md" THEN "documentation"
    ELSE "features"

\* how often path occurs in the list
Occurrences(list, path) == Cardinality({k \in DOMAIN list : list[k] = path})

\* the file is one the scan opens, and its content holds the id
Hit(file, id) == file.suffix \in {".py", ".js", ".ts", ".md"} /\ ContentHas(file.content, id)

\* C23: for every requirement id, a readable scanned file that contains
\* the id is listed once, in exactly one bucket: tests when its path
\* contains "test" in any case, else documentation for a .md file, else
\* features; components stays empty; a file without the id is in no bucket.
C23_OneBucketPerHit ==
    tStage = "traced" =>
        \A id \in DOMAIN tTrace :
            /\ tTrace[id].components = << >>
            /\ \A k \in DOMAIN tFiles :
                  \A b \in Buckets :
                      Occurrences(tTrace[id][b], tFiles[k].path) =
                          IF /\ tFiles[k].readable
                             /\ Hit(tFiles[k], id)
                             /\ b = BucketFor(tFiles[k].path, tFiles[k].suffix)
                          THEN 1 ELSE 0

\* a scan that filed, for one requirement id, a .md file under a directory
\* named Testing into tests and another .md file into documentation, and
\* left a readable file out of the entry of an id it does not contain
C23_Witness ==
    /\ tStage = "traced"
    /\ \E id \in DOMAIN tTrace :
          /\ "source/Testing/plan.md" \in Range(tTrace[id].tests)
          /\ "source/docs/design.md" \in Range(tTrace[id].documentation)
    /\ \E id \in DOMAIN tTrace, k \in DOMAIN tFiles :
          /\ tFiles[k].readable
          /\ ~Hit(tFiles[k], id)
          /\ tFiles[k].path \notin EntryPaths(tTrace[id])

\* C24: a file that cannot be opened or read is in no bucket of any
\* requirement id, every readable scanned file that contains an id is
\* still listed for it whatever its place in the scan order, and the
\* matrix has an entry for every requirement id.
C24_UnreadableFileSkipped ==
    tStage = "traced" =>
        /\ DOMAIN tTrace = {tReqs[k].id : k \in DOMAIN tReqs}
        /\ \A id \in DOMAIN tTrace :
              \A k \in DOMAIN tFiles :
                  IF ~tFiles[k].readable
                  THEN tFiles[k].path \notin EntryPaths(tTrace[id])
                  ELSE Hit(tFiles[k], id) => tFiles[k].path \in EntryPaths(tTrace[id])

\* a scan for several requirement ids in which a file that contains the
\* last id could not be read and a file scanned after it was listed for
\* that id
C24_Witness ==
    /\ tStage = "traced"
    /\ Len(tReqs) >= 2
    /\ \E j, k \in DOMAIN tFiles :
          /\ j < k
          /\ ~tFiles[j].readable
          /\ Hit(tFiles[j], tReqs[Len(tReqs)].id)
          /\ tFiles[k].path \in EntryPaths(tTrace[tReqs[Len(tReqs)].id])

\* ------------------------------------------------------------------------
\* Claims about the report
\* ------------------------------------------------------------------------
\* the ids of the parsed requirements
ParsedIds == {tReqs[k].id : k \in DOMAIN tReqs}

\* the lines of the report that are rows of the dependency table
TableRows == {k \in DOMAIN tDoc : MatchAt(tDoc[k], 1, "| REQ-")}

\* C25: the dependency mapping has exactly the requirement ids of the run
\* as its keys, whether the requirement is a login requirement or has no
\* dependencies, and the dependency table of the report has exactly one row
\* per requirement id, which shows the list, or None for an empty list.
C25_DependencyKeysAndRows ==
    tStage = "reported" =>
        /\ DOMAIN tDeps = ParsedIds
        /\ Cardinality(TableRows) = Cardinality(ParsedIds)
        /\ \A id \in ParsedIds :
              \E k \in TableRows :
                  tDoc[k] = "| " \o id \o " | "
                            \o (IF tDeps[id] = << >> THEN "None" ELSE JoinComma(tDeps[id]))
                            \o " |"

\* the report of a text with a login requirement, whose list is empty, and
\* a requirement with dependencies
C25_Witness ==
    /\ tStage = "reported"
    /\ \E k \in DOMAIN tReqs :
          Says(tReqs[k].description, "login") /\ tDeps[tReqs[k].id] = << >>
    /\ \E k \in DOMAIN tReqs : tDeps[tReqs[k].id] # << >>

\* the priorities in the order the claim gives the groups, with the names
\* their headings show
GroupNames == << [priority |-> "critical", name |-> "Critical"],
                 [priority |-> "high",     name |-> "High"],
                 [priority |-> "medium",   name |-> "Medium"],
                 [priority |-> "low",      name |-> "Low"] >>

\* the lines of the report that are the heading of the g-th group
GroupHeadings(g) ==
    {k \in DOMAIN tDoc :
        tDoc[k] = "### 3." \o Str(g) \o " " \o GroupNames[g].name \o " Priority Requirements"}

\* the lines of the report that are the heading of any group
AnyGroupHeadings == {k \in DOMAIN tDoc : MatchAt(tDoc[k], 1, "### 3.")}

\* the lines of the report that are the heading of the j-th requirement
ReqHeadings(j) == {k \in DOMAIN tDoc : MatchAt(tDoc[k], 1, "#### " \o tReqs[j].id \o ": ")}

\* the line of the heading of the j-th requirement
ReqLine(j) == CHOOSE k \in ReqHeadings(j) : TRUE

\* the number of the group of the j-th requirement
GroupOf(j) == CHOOSE g \in DOMAIN GroupNames : GroupNames[g].priority = tReqs[j].priority

\* C26: in the report every requirement has exactly one heading, below
\* the heading of the group of its own priority and above the heading of
\* any later group; a group has a heading exactly when it has a member;
\* the group headings stand in the order critical, high, medium, low; and
\* the requirements of one group stand in parse order.
C26_GroupedByPriority ==
    tStage = "reported" =>
        /\ \A j \in DOMAIN tReqs : Cardinality(ReqHeadings(j)) = 1
        /\ \A g \in DOMAIN GroupNames :
              Cardinality(GroupHeadings(g)) =
                  IF \E j \in DOMAIN tReqs : GroupOf(j) = g THEN 1 ELSE 0
        /\ AnyGroupHeadings = UNION {GroupHeadings(g) : g \in DOMAIN GroupNames}
        /\ \A g, h \in DOMAIN GroupNames :
              g < h => \A k \in GroupHeadings(g), l \in GroupHeadings(h) : k < l
        /\ \A j \in DOMAIN tReqs :
              \A k \in GroupHeadings(GroupOf(j)) :
                  /\ k < ReqLine(j)
                  /\ \A l \in AnyGroupHeadings : ~(k < l /\ l < ReqLine(j))
        /\ \A i, j \in DOMAIN tReqs :
              (i < j /\ GroupOf(i) = GroupOf(j)) => ReqLine(i) < ReqLine(j)

\* the report of a text whose first requirement is of priority low and
\* whose second is critical
C26_Witness ==
    /\ tStage = "reported"
    /\ Len(tReqs) = 2
    /\ tReqs[1].priority = "low"
    /\ tReqs[2].priority = "critical"

\* ------------------------------------------------------------------------
\* Claims about the order of the ambiguity findings
\* ------------------------------------------------------------------------
\* the vague words in the order of the word list
VagueOrder == <<"some", "many", "few", "several", "most", "often", "usually", "normally",
                "fast", "slow", "good", "bad">>

\* the vague-quantifier findings due to a sentence, from the k-th word on
RECURSIVE VagueDue(_, _)
VagueDue(sentence, k) ==
    IF k > Len(VagueOrder) THEN << >>
    ELSE (IF Says(sentence, VagueOrder[k])
          THEN <<"Vague quantifier: '" \o VagueOrder[k] \o "' - consider specific measurements">>
          ELSE << >>)
         \o VagueDue(sentence, k + 1)

\* the sentence contains none of when, if, after
NoCondition(sentence) ==
    ~Says(sentence, "when") /\ ~Says(sentence, "if") /\ ~Says(sentence, "after")

\* C27: the ambiguities of a requirement are, in this order, one
\* vague-quantifier finding per vague word its sentence contains (in
\* word-list order), the missing-actor finding when it names no actor, the
\* passive-voice finding when it contains " be " or " been ", and the
\* missing-condition finding when it contains none of when, if, after;
\* each check is made whatever the others found.
C27_AmbiguityOrder ==
    \A k \in DOMAIN tReqs :
        /\ tReqs[k].ambiguities =
              VagueDue(tReqs[k].description, 1)
              \o (IF \A a \in ActorWords : ~Says(tReqs[k].description, a)
                  THEN <<"Missing actor - who performs this action?">> ELSE << >>)
              \o (IF Says(tReqs[k].description, " be ") \/ Says(tReqs[k].description, " been ")
                  THEN <<"Passive voice detected - consider active voice for clarity">>
                  ELSE << >>)
              \o (IF NoCondition(tReqs[k].description)
                  THEN <<"Missing conditions - when does this requirement apply?">>
                  ELSE << >>)
        /\ NoCondition(tReqs[k].description) <=>
              "Missing conditions - when does this requirement apply?"
                  \in Range(tReqs[k].ambiguities)

\* a parsed text with a requirement in which "fast" stands before "some",
\* one without actor, in passive voice and without condition, and one with
\* a condition word
C27_Witness ==
    /\ \E k \in DOMAIN tReqs :
          Says(tReqs[k].description, "fast") /\ Says(tReqs[k].description, "some")
    /\ \E k \in DOMAIN tReqs :
          /\ \A a \in ActorWords : ~Says(tReqs[k].description, a)
          /\ Says(tReqs[k].description, " be ")
          /\ NoCondition(tReqs[k].description)
    /\ \E k \in DOMAIN tReqs : ~NoCondition(tReqs[k].description)

\* ------------------------------------------------------------------------
\* Claims about successive and overlapping runs
\* ------------------------------------------------------------------------
\* the run of p is in progress and has built its traceability
TraceBuilt(p) ==
    /\ "trace" \in Range(trail[p])
    /\ pc[p] \notin {"returned", "raised"}

\* C28: a run on the same text as the successful run before it, which
\* produced requirements, lists the report that run wrote in the
\* documentation bucket of every requirement id, whereas a first run, which
\* finds no report, lists it for none.
C28_SecondRunFindsReport ==
    \A p \in SeqProcs :
        TraceBuilt(p) =>
            /\ (/\ history # << >>
                /\ history[Len(history)].ok
                /\ history[Len(history)].input = input[p]
                /\ requirements[p] # << >>) =>
                   \A id \in DOMAIN traceability[p] :
                       /\ Occurrences(traceability[p][id].documentation, ReportPath) = 1
                       /\ ReportPath \notin Range(traceability[p][id].tests)
                       /\ ReportPath \notin Range(traceability[p][id].features)
            /\ history = << >> =>
                   \A id \in DOMAIN traceability[p] :
                       ReportPath \notin EntryPaths(traceability[p][id])

\* a second run on the three-requirement text of the successful first run,
\* its traceability built
C28_Witness ==
    \E p \in SeqProcs :
        /\ TraceBuilt(p)
        /\ Len(history) = 1
        /\ history[1].ok
        /\ history[1].input = input[p]
        /\ Len(requirements[p]) = 3
        /\ \A id \in DOMAIN traceability[p] :
              ReportPath \in Range(traceability[p][id].documentation)

\* C29 (as claimed): when two runs of one project on different texts have
\* both returned, the report on disk is the one written by the run whose
\* snapshot was committed last.
C29_ReportMatchesSnapshot ==
    \A a, b \in Procs :
        (a # b /\ pc[a] = "returned" /\ pc[b] = "returned" /\ input[a] # input[b]) =>
            (ReportOf(a) <=> last_commit.epoch = epoch[a])

\* ------------------------------------------------------------------------
\* Claims about the memory service
\* ------------------------------------------------------------------------
\* the request is one the handler rejects: store_memory without content,
\* retrieve_memory without query, an unknown tool or an unsupported method
Invalid(request) ==
    \/ request.method # "tools/call"
    \/ request.name \notin {"store_memory", "retrieve_memory", "check_database_health"}
    \/ request.name = "store_memory" /\ request.content \in {None, ""}
    \/ request.name = "retrieve_memory" /\ request.query \in {None, ""}

\* C30 (as claimed): every call of the MCP endpoint with an invalid request
\* is answered with status 400 and leaves the table memories as it was,
\* and a call is answered with status 500 only when the store raised.
C30_InvalidRequestGets400 ==
    [][mcp_count' = mcp_count + 1 =>
          /\ Invalid(mcp_request') => (mcp_response'.status = 400 /\ memories' = memories)
          /\ mcp_response'.status = 500 => mcp_raised' = "store"]_vars

====
